---- MODULE Spec2Model ----
(***************************************************************************)
(* A model of the imageset-generator: the document builder of              *)
(* generator.py (ImageSetGenerator) and the cache store / ingestion        *)
(* pipeline of app.py.  Spec is the builder, TagSpec the catalog tagging,  *)
(* CacheSpec the operators cache with its pipeline, PathSpec the paths of  *)
(* its files, LookupSpec the lookups of versions, catalogs and operators,  *)
(* ReleaseSpec the channels and releases handlers, ToolSpec the subprocess *)
(* calls (ToolFairSpec with the worker scheduled fairly), GenerateSpec the *)
(* generate requests, EnrichSpec the parsing of the two tables and         *)
(* ValidateSpec the validators of validation.py.                           *)
(*                                                                         *)
(* Strings that the code computes on (split, replace, re.sub, min/max,     *)
(* concatenation) are sequences of one-character strings; strings the code *)
(* only stores or looks up are TLA+ strings.  Python's None, "" and []     *)
(* are tested by the code for truthiness only, and are one value here.     *)
(***************************************************************************)
EXTENDS Integers, Sequences, FiniteSets, TLC

VARIABLES
    config,     \* ImageSetGenerator.config, the document
    last,       \* the last builder call: its name, its arguments, its result
    ncalls,     \* the number of builder calls made so far
    tagBase,    \* re-tagging: the catalog reference given first
    tagRef,     \* re-tagging: the reference after the tags applied so far
    tagHist,    \* re-tagging: the ocp_version of each tagging, in order
    fs,         \* the data directory: path -> file content
    active,     \* the workers that serve requests in this run
    toolsMayFail,  \* whether opm, jq and oc-mirror can exit non-zero in this run
    req,        \* per worker: the operators lookup it serves (catalog, version)
    pc,         \* per worker: where its handler stands
    operator_output,  \* per worker: refresh_ocp_operators' operator_output
    toolsRun,   \* per worker: the external tools its current request has run
    resp,       \* per worker: the response of its last finished request
    handler,    \* subprocesses: the function the worker runs, with its position
    phase,      \* subprocesses: idle, running, waiting in subprocess.run, returned
    runs,       \* subprocesses: the invocations made, in order
    outcome,    \* subprocesses: what the function returned or raised
    present,    \* subprocesses: the stage files of refresh_ocp_operators that exist
    payload,    \* generate requests: the JSON body of each request
    generator,  \* generate requests: the document of each request's ImageSetGenerator
    pos,        \* generate requests: where generate_preview stands for each request
    answer,     \* generate requests: the response to each request
    tables,     \* parsing: the bundle table and the channel table
    enriched,   \* parsing: the records made of them
    given,      \* validators: the argument of the call
    verdict     \* validators: the function called and what it returned or raised

builderVars == <<config, last, ncalls>>
tagVars == <<tagBase, tagRef, tagHist>>
cacheVars == <<fs, active, toolsMayFail, req, pc, operator_output, toolsRun, resp>>
toolVars == <<handler, phase, runs, outcome, present>>
vars == <<config, last, ncalls, tagBase, tagRef, tagHist,
          fs, active, toolsMayFail, req, pc, operator_output, toolsRun, resp,
          handler, phase, runs, outcome, present,
          payload, generator, pos, answer, tables, enriched, given, verdict>>
enrichVars == <<tables, enriched>>
validateVars == <<given, verdict>>
generateVars == <<payload, generator, pos, answer>>
nonBuilderVars == <<tagVars, cacheVars, toolVars, generateVars, enrichVars, validateVars>>
nonTagVars == <<builderVars, cacheVars, toolVars, generateVars, enrichVars, validateVars>>
nonCacheVars == <<builderVars, tagVars, toolVars, generateVars, enrichVars, validateVars>>
nonToolVars == <<builderVars, tagVars, cacheVars, generateVars, enrichVars, validateVars>>
nonGenerateVars == <<builderVars, tagVars, cacheVars, toolVars, enrichVars, validateVars>>

----------------------------------------------------------------------------
(* Bounds *)

\* The number of builder calls in one run.
MaxCalls == 2

\* The length of the catalog references that are re-tagged.
MaxRefLen == 3

\* The number of times a reference is tagged in a row.
MaxTags == 2

----------------------------------------------------------------------------
(* Python values *)

\* None, "" and [] of a character-sequence string or a list.
None == <<>>

\* bool(x) of a character-sequence string, a list, or None.
Truthy(x) == x # None

\* An empty dict.
EmptyDict == [k \in {} |-> None]

\* d[k] = v on a dict.
Put(d, k, v) == (k :> v) @@ d

\* del d[k].
Del(d, k) == [x \in (DOMAIN d) \ {k} |-> d[x]]

\* d.get(k) of a dict of TLA+ strings, None being "".
DictGet(d, k) == IF k \in DOMAIN d THEN d[k] ELSE ""

----------------------------------------------------------------------------
(* Character-sequence strings *)

Digits == {"0", "1", "2", "3", "4", "5", "6", "7", "8", "9"}

\* ord(c) for the characters version strings are made of.
Ord(c) ==
    CASE c = "." -> 46
      [] c = "0" -> 48 [] c = "1" -> 49 [] c = "2" -> 50 [] c = "3" -> 51
      [] c = "4" -> 52 [] c = "5" -> 53 [] c = "6" -> 54 [] c = "7" -> 55
      [] c = "8" -> 56 [] c = "9" -> 57

\* a < b on Python strings: by code point, a proper prefix first.
RECURSIVE StrLess(_, _)
StrLess(a, b) ==
    IF b = <<>> THEN FALSE
    ELSE IF a = <<>> THEN TRUE
    ELSE IF Ord(Head(a)) # Ord(Head(b)) THEN Ord(Head(a)) < Ord(Head(b))
    ELSE StrLess(Tail(a), Tail(b))

\* int(s) of a string of digits.
RECURSIVE ToInt(_)
ToInt(s) ==
    IF s = <<>> THEN 0
    ELSE 10 * ToInt(SubSeq(s, 1, Len(s) - 1)) + (Ord(s[Len(s)]) - Ord("0"))

\* min(xs) of a non-empty list of strings: the first least element.
RECURSIVE PyMin(_)
PyMin(xs) ==
    IF Len(xs) = 1 THEN xs[1]
    ELSE LET m == PyMin(SubSeq(xs, 1, Len(xs) - 1))
         IN IF StrLess(xs[Len(xs)], m) THEN xs[Len(xs)] ELSE m

\* max(xs) of a non-empty list of strings: the first greatest element.
RECURSIVE PyMax(_)
PyMax(xs) ==
    IF Len(xs) = 1 THEN xs[1]
    ELSE LET m == PyMax(SubSeq(xs, 1, Len(xs) - 1))
         IN IF StrLess(m, xs[Len(xs)]) THEN xs[Len(xs)] ELSE m

\* s.split(ch) for a one-character separator.
RECURSIVE Split(_, _)
Split(s, ch) ==
    IF \A i \in 1..Len(s) : s[i] # ch THEN <<s>>
    ELSE LET i == CHOOSE k \in 1..Len(s) :
                      s[k] = ch /\ \A j \in 1..(k - 1) : s[j] # ch
         IN <<SubSeq(s, 1, i - 1)>> \o Split(SubSeq(s, i + 1, Len(s)), ch)

\* ch.join(parts).
RECURSIVE Join(_, _)
Join(parts, ch) ==
    IF parts = <<>> THEN <<>>
    ELSE IF Len(parts) = 1 THEN parts[1]
    ELSE parts[1] \o <<ch>> \o Join(Tail(parts), ch)

\* xs[:2].
FirstTwo(xs) == SubSeq(xs, 1, IF Len(xs) < 2 THEN Len(xs) ELSE 2)

\* s.replace(old, new) for one-character old and new.
Replace(s, old, new) == [i \in 1..Len(s) |-> IF s[i] = old THEN new ELSE s[i]]

\* Where r":v[\d.]+$" matches in s: the leftmost i with s[i..] = ":v" followed
\* by one or more digits and dots up to the end (0: no match).  The strings
\* of the model hold no newline, before which "$" would match too.
TagMatch(s) ==
    LET hits == {i \in 1..Len(s) :
                    /\ i + 2 <= Len(s)
                    /\ s[i] = ":"
                    /\ s[i + 1] = "v"
                    /\ \A j \in (i + 2)..Len(s) : s[j] \in Digits \cup {"."}}
    IN IF hits = {} THEN 0 ELSE CHOOSE i \in hits : \A k \in hits : i <= k

\* re.sub(r":v[\d.]+$", "", s).
StripTag(s) == IF TagMatch(s) = 0 THEN s ELSE SubSeq(s, 1, TagMatch(s) - 1)

----------------------------------------------------------------------------
(* String literals *)

V4_9_0 == <<"4",".","9",".","0">>
V4_10_0 == <<"4",".","1","0",".","0">>
V4_16_0 == <<"4",".","1","6",".","0">>
V4_16_1 == <<"4",".","1","6",".","1">>
DefaultChannel == <<"s","t","a","b","l","e","-","4",".","1","4">>
Stable416 == <<"s","t","a","b","l","e","-","4",".","1","6">>
Fast416 == <<"f","a","s","t","-","4",".","1","6">>
StablePrefix == <<"s","t","a","b","l","e","-">>
Ocp416 == <<"4",".","1","6">>
Ocp417 == <<"4",".","1","7">>
TagPrefix == <<":","v">>
RedHatIndex == <<"r","e","g","i","s","t","r","y",".","r","e","d","h","a","t",".","i","o","/","r","e","d","h","a","t","/","r","e","d","h","a","t","-","o","p","e","r","a","t","o","r","-","i","n","d","e","x">>
RedHatIndex416 == RedHatIndex \o TagPrefix \o Ocp416
HelmRepoA == <<"h","t","t","p","s",":","/","/","c","h","a","r","t","s",".","i","o","/","s","t","a","b","l","e">>
HelmRepoB == <<"o","c","i",":","/","/","r",".","i","o",":","5","0","0","0","/","c">>

----------------------------------------------------------------------------
(* The document builder: generator.py, class ImageSetGenerator *)

\* datetime.now().isoformat() at construction.
Timestamps == {"2025-01-01T00:00:00"}

\* A deviation the structure property must detect: a document without helm.
InitConfigWithoutHelm(now) ==
    [apiVersion |-> "mirror.openshift.io/v1alpha2",
     kind |-> "ImageSetConfiguration",
     metadata |->
        [name |-> "openshift-imageset",
         labels |-> ("generated-by" :> "imageset-generator")
                    @@ ("generated-at" :> now)],
     spec |->
        [mirror |->
            [platform |-> [channels |-> <<>>, graph |-> TRUE],
             operators |-> <<>>,
             additionalImages |-> <<>>]]]

\* __init__: the empty document.
InitConfig(now) ==
    [apiVersion |-> "mirror.openshift.io/v1alpha2",
     kind |-> "ImageSetConfiguration",
     metadata |->
        [name |-> "openshift-imageset",
         labels |-> ("generated-by" :> "imageset-generator")
                    @@ ("generated-at" :> now)],
     spec |->
        [mirror |->
            [platform |-> [channels |-> <<>>, graph |-> TRUE],
             operators |-> <<>>,
             additionalImages |-> <<>>,
             helm |-> EmptyDict]]]

\* set_archive_size(size).
SetArchiveSizeResult(cfg, size) ==
    [cfg EXCEPT !.spec = Put(@, "archiveSize", size)]

\* self.config["spec"]["mirror"]["platform"]["channels"].append(platform_config)
AppendChannel(cfg, platform_config) ==
    [cfg EXCEPT !.spec.mirror.platform.channels = Append(@, platform_config)]

\* The legacy branch's min(versions).
LegacyMin(versions) == PyMin(versions)

\* The legacy branch's max(versions).
LegacyMax(versions) == PyMax(versions)

\* platform_config of "the new min/max approach".
BoundsPlatformConfig(channel, min_version, max_version) ==
    LET base == [name |-> channel, type |-> "ocp"]
        withMin == IF Truthy(min_version)
                   THEN Put(base, "minVersion", min_version) ELSE base
    IN IF Truthy(max_version)
       THEN Put(withMin, "maxVersion", max_version) ELSE withMin

\* add_ocp_versions taking the legacy list before the explicit bounds.
AddOcpVersionsLegacyFirst(cfg, versions, channel, min_version, max_version) ==
    IF Truthy(versions) THEN
        AppendChannel(cfg, [name |-> channel,
                            type |-> "ocp",
                            minVersion |-> LegacyMin(versions),
                            maxVersion |-> LegacyMax(versions)])
    ELSE IF Truthy(min_version) \/ Truthy(max_version) THEN
        AppendChannel(cfg, BoundsPlatformConfig(channel, min_version, max_version))
    ELSE cfg

\* add_ocp_versions(versions, channel, min_version, max_version).
AddOcpVersionsResult(cfg, versions, channel, min_version, max_version) ==
    IF Truthy(min_version) \/ Truthy(max_version) THEN
        AppendChannel(cfg, BoundsPlatformConfig(channel, min_version, max_version))
    ELSE IF Truthy(versions) THEN
        LET major_minor == Join(FirstTwo(Split(versions[1], ".")), ".")
            name == IF channel = DefaultChannel
                    THEN StablePrefix \o major_minor ELSE channel
        IN AppendChannel(cfg, [name |-> name,
                               type |-> "ocp",
                               minVersion |-> LegacyMin(versions),
                               maxVersion |-> LegacyMax(versions)])
    ELSE cfg

\* operator_mappings: alias -> package name.
OperatorMappings ==
    [a \in {"logging", "logging-operator", "monitoring", "cluster-monitoring",
            "service-mesh", "istio", "serverless", "knative", "pipelines",
            "tekton", "gitops", "argocd", "storage", "ocs", "ceph",
            "elasticsearch", "jaeger", "kiali"} |->
        CASE a \in {"logging", "logging-operator"} -> "cluster-logging"
          [] a \in {"monitoring", "cluster-monitoring"} -> "cluster-monitoring-operator"
          [] a \in {"service-mesh", "istio"} -> "servicemeshoperator"
          [] a \in {"serverless", "knative"} -> "serverless-operator"
          [] a \in {"pipelines", "tekton"} -> "openshift-pipelines-operator-rh"
          [] a \in {"gitops", "argocd"} -> "openshift-gitops-operator"
          [] a \in {"storage", "ocs", "ceph"} -> "odf-operator"
          [] a = "elasticsearch" -> "elasticsearch-operator"
          [] a = "jaeger" -> "jaeger-product"
          [] a = "kiali" -> "kiali-ossm"]

\* s.lower() for the operator names of the model.
Lower(s) ==
    CASE s = "Logging" -> "logging"
      [] s = "GitOps" -> "gitops"
      [] OTHER -> s

\* The lookup without lower().
ResolvePackageCaseSensitive(name) ==
    IF name \in DOMAIN OperatorMappings
    THEN OperatorMappings[name] ELSE name

\* operator_mappings.get(name.lower(), name).
ResolvePackage(name) ==
    IF Lower(name) \in DOMAIN OperatorMappings
    THEN OperatorMappings[Lower(name)] ELSE name

\* A deviation the re-tagging property must detect: tagging without removing
\* the tag that is there.
TagCatalogStacking(catalog, ocp_version) ==
    IF Truthy(ocp_version)
    THEN catalog \o TagPrefix \o ocp_version
    ELSE catalog

\* The catalog reference add_operators stores: with an ocp_version, any
\* ":v<digits and dots>" suffix is removed and ":v<ocp_version>" appended.
TagCatalog(catalog, ocp_version) ==
    IF Truthy(ocp_version)
    THEN StripTag(catalog) \o TagPrefix \o ocp_version
    ELSE catalog

\* The package entry of a str operator.
StrEntry(op, channels) ==
    LET package_name == ResolvePackage(op.name)
        channel == IF DictGet(channels, op.name) # ""
                   THEN DictGet(channels, op.name)
                   ELSE DictGet(channels, package_name)
    IN IF /\ channels # EmptyDict
          /\ (op.name \in DOMAIN channels \/ package_name \in DOMAIN channels)
          /\ channel # ""
       THEN [name |-> package_name, channels |-> <<[name |-> channel]>>]
       ELSE [name |-> package_name]

\* A deviation the hint property must detect: a dict operator's channel
\* taken from the operator alone.
DictEntryWithoutHints(op, channels) ==
    LET package_name == ResolvePackage(op.name)
        base == [name |-> package_name]
        withMin == IF op.minVersion # ""
                   THEN Put(base, "minVersion", op.minVersion) ELSE base
        withMax == IF op.maxVersion # ""
                   THEN Put(withMin, "maxVersion", op.maxVersion) ELSE withMin
    IN IF op.channel # ""
       THEN Put(withMax, "channels", <<[name |-> op.channel]>>)
       ELSE withMax

\* The package entry of a dict operator; an absent key and "" are one value.
DictEntry(op, channels) ==
    LET package_name == ResolvePackage(op.name)
        base == [name |-> package_name]
        withMin == IF op.minVersion # ""
                   THEN Put(base, "minVersion", op.minVersion) ELSE base
        withMax == IF op.maxVersion # ""
                   THEN Put(withMin, "maxVersion", op.maxVersion) ELSE withMin
        channel == IF op.channel # "" THEN op.channel
                   ELSE IF channels # EmptyDict THEN DictGet(channels, op.name)
                   ELSE ""
    IN IF channel # ""
       THEN Put(withMax, "channels", <<[name |-> channel]>>)
       ELSE withMax

\* The loop over operators: one entry per str or dict element, in order;
\* an element of another type adds nothing.
RECURSIVE OperatorPackages(_, _)
OperatorPackages(operators, channels) ==
    IF operators = <<>> THEN <<>>
    ELSE LET op == Head(operators)
             rest == OperatorPackages(Tail(operators), channels)
         IN CASE op.kind = "str" -> <<StrEntry(op, channels)>> \o rest
              [] op.kind = "dict" -> <<DictEntry(op, channels)>> \o rest
              [] OTHER -> rest

\* self.config["spec"]["mirror"]["operators"].append(operator_config)
StoreOperatorConfig(cfg, operator_config) ==
    [cfg EXCEPT !.spec.mirror.operators = Append(@, operator_config)]

\* add_operators(operators, catalog, channels, ocp_version).
AddOperatorsResult(cfg, operators, catalog, channels, ocp_version) ==
    IF ~Truthy(operators) THEN cfg
    ELSE StoreOperatorConfig(cfg,
            [catalog |-> TagCatalog(catalog, ocp_version),
             packages |-> OperatorPackages(operators, channels)])

\* add_additional_images that empties the operators section.
AddAdditionalImagesClearingOperators(cfg, images) ==
    IF ~Truthy(images) THEN cfg
    ELSE [cfg EXCEPT !.spec.mirror.additionalImages =
                         @ \o [i \in 1..Len(images) |-> [name |-> images[i]]],
                     !.spec.mirror.operators = <<>>]

\* add_additional_images(images).
AddAdditionalImagesResult(cfg, images) ==
    IF ~Truthy(images) THEN cfg
    ELSE [cfg EXCEPT !.spec.mirror.additionalImages =
              @ \o [i \in 1..Len(images) |-> [name |-> images[i]]]]

\* The key with the slashes replaced only.
RepoKeySlashesOnly(repository) == Replace(repository, "/", "-")

\* chart.get("repository", "").replace("/", "-").replace(":", "-")
RepoKey(repository) == Replace(Replace(repository, "/", "-"), ":", "-")

\* One round of add_helm_charts' loop.
AddChart(helm, chart) ==
    LET repo_name == RepoKey(chart.repository)
        had == IF repo_name \in DOMAIN helm THEN helm[repo_name] ELSE <<>>
    IN Put(helm, repo_name,
           Append(had, [name |-> chart.name, version |-> chart.version]))

RECURSIVE AddCharts(_, _)
AddCharts(helm, charts) ==
    IF charts = <<>> THEN helm
    ELSE AddCharts(AddChart(helm, Head(charts)), Tail(charts))

\* add_helm_charts(charts).
AddHelmChartsResult(cfg, charts) ==
    IF ~Truthy(charts) THEN cfg
    ELSE [cfg EXCEPT !.spec.mirror.helm = AddCharts(@, charts)]

\* A deviation the kubeVirtContainer property must detect: disabling stores
\* false.
SetKubevirtContainerStoringFalse(cfg, enable) ==
    [cfg EXCEPT !.spec.mirror.platform = Put(@, "kubeVirtContainer", enable)]

\* set_kubevirt_container(enable).
SetKubevirtContainerResult(cfg, enable) ==
    IF enable
    THEN [cfg EXCEPT !.spec.mirror.platform = Put(@, "kubeVirtContainer", TRUE)]
    ELSE IF "kubeVirtContainer" \in DOMAIN cfg.spec.mirror.platform
         THEN [cfg EXCEPT !.spec.mirror.platform = Del(@, "kubeVirtContainer")]
         ELSE cfg

\* A deviation the key-order property must detect: yaml.dump left to sort
\* the root keys.
GenerateYamlSortingKeys(cfg) ==
    LET spec_ == IF "spec" \in DOMAIN cfg THEN cfg.spec ELSE EmptyDict
        metadata == IF "metadata" \in DOMAIN cfg THEN cfg.metadata ELSE EmptyDict
        config_copy == spec_ @@ Del(Del(cfg, "spec"), "metadata")
        sorted == <<"apiVersion", "archiveSize", "kind", "mirror">>
    IN [comments |->
            IF metadata = EmptyDict THEN <<>>
            ELSE <<[key |-> <<"name">>, value |-> metadata.name],
                   [key |-> <<"labels", "generated-by">>,
                    value |-> metadata.labels["generated-by"]],
                   [key |-> <<"labels", "generated-at">>,
                    value |-> metadata.labels["generated-at"]]>>,
        keys |-> SelectSeq(sorted, LAMBDA k : k \in DOMAIN config_copy),
        body |-> config_copy]

\* generate_yaml(): the comment lines, in the order of metadata's items, and
\* the mapping handed to yaml.dump (sort_keys=False) with its root keys in
\* insertion order.
GenerateYaml(cfg) ==
    LET spec_ == IF "spec" \in DOMAIN cfg THEN cfg.spec ELSE EmptyDict
        metadata == IF "metadata" \in DOMAIN cfg THEN cfg.metadata ELSE EmptyDict
        config_copy == spec_ @@ Del(Del(cfg, "spec"), "metadata")
        rootOrder == <<"apiVersion", "kind", "mirror", "archiveSize">>
    IN [comments |->
            IF metadata = EmptyDict THEN <<>>
            ELSE <<[key |-> <<"name">>, value |-> metadata.name],
                   [key |-> <<"labels", "generated-by">>,
                    value |-> metadata.labels["generated-by"]],
                   [key |-> <<"labels", "generated-at">>,
                    value |-> metadata.labels["generated-at"]]>>,
        keys |-> SelectSeq(rootOrder, LAMBDA k : k \in DOMAIN config_copy),
        body |-> config_copy]

----------------------------------------------------------------------------
(* The text of the document: yaml.dump(config_copy,                        *)
(* default_flow_style=False, sort_keys=False) and yaml.safe_load            *)

\* The characters of the strings the document holds as whole values.
Chars(s) ==
    CASE s = "mirror.openshift.io/v1alpha2" -> <<"m","i","r","r","o","r",".","o","p","e","n","s","h","i","f","t",".","i","o","/","v","1","a","l","p","h","a","2">>
      [] s = "ImageSetConfiguration" -> <<"I","m","a","g","e","S","e","t","C","o","n","f","i","g","u","r","a","t","i","o","n">>
      [] s = "ocp" -> <<"o","c","p">>
      [] s = "cluster-logging" -> <<"c","l","u","s","t","e","r","-","l","o","g","g","i","n","g">>
      [] s = "my-operator" -> <<"m","y","-","o","p","e","r","a","t","o","r">>
      [] s = "openshift-gitops-operator" -> <<"o","p","e","n","s","h","i","f","t","-","g","i","t","o","p","s","-","o","p","e","r","a","t","o","r">>
      [] s = "5.8.0" -> <<"5",".","8",".","0">>
      [] s = "5.8.1" -> <<"5",".","8",".","1">>
      [] s = "latest" -> <<"l","a","t","e","s","t">>
      [] s = "stable-5.8" -> <<"s","t","a","b","l","e","-","5",".","8">>
      [] s = "registry.redhat.io/ubi8/ubi:latest" -> <<"r","e","g","i","s","t","r","y",".","r","e","d","h","a","t",".","i","o","/","u","b","i","8","/","u","b","i",":","l","a","t","e","s","t">>
      [] s = "quay.io/a/b:1" -> <<"q","u","a","y",".","i","o","/","a","/","b",":","1">>
      [] s = "nginx" -> <<"n","g","i","n","x">>
      [] s = "redis" -> <<"r","e","d","i","s">>
      [] s = "etcd" -> <<"e","t","c","d">>
      [] s = "bare" -> <<"b","a","r","e">>
      [] s = "1.0" -> <<"1",".","0">>
      [] s = "3.5" -> <<"3",".","5">>
      [] s = "apiVersion" -> <<"a","p","i","V","e","r","s","i","o","n">>
      [] s = "kind" -> <<"k","i","n","d">>
      [] s = "mirror" -> <<"m","i","r","r","o","r">>
      [] s = "archiveSize" -> <<"a","r","c","h","i","v","e","S","i","z","e">>
      [] s = "platform" -> <<"p","l","a","t","f","o","r","m">>
      [] s = "operators" -> <<"o","p","e","r","a","t","o","r","s">>
      [] s = "additionalImages" -> <<"a","d","d","i","t","i","o","n","a","l","I","m","a","g","e","s">>
      [] s = "helm" -> <<"h","e","l","m">>
      [] s = "channels" -> <<"c","h","a","n","n","e","l","s">>
      [] s = "graph" -> <<"g","r","a","p","h">>
      [] s = "kubeVirtContainer" -> <<"k","u","b","e","V","i","r","t","C","o","n","t","a","i","n","e","r">>
      [] s = "name" -> <<"n","a","m","e">>
      [] s = "type" -> <<"t","y","p","e">>
      [] s = "minVersion" -> <<"m","i","n","V","e","r","s","i","o","n">>
      [] s = "maxVersion" -> <<"m","a","x","V","e","r","s","i","o","n">>
      [] s = "catalog" -> <<"c","a","t","a","l","o","g">>
      [] s = "packages" -> <<"p","a","c","k","a","g","e","s">>
      [] s = "version" -> <<"v","e","r","s","i","o","n">>
      [] s = "true" -> <<"t","r","u","e">>
      [] s = "false" -> <<"f","a","l","s","e">>
      [] s = "metadata" -> <<"m","e","t","a","d","a","t","a">>
      [] s = "spec" -> <<"s","p","e","c">>
      [] s = "" -> <<>>

\* The nodes of a document: a scalar with its tag, a sequence, or a mapping
\* as the sequence of its key/value pairs in the mapping's order.
YStr(text) == [tag |-> "str", v |-> text]
YBool(b) == [tag |-> "bool", v |-> b]
YInt(n) == [tag |-> "int", v |-> n]
YFloat(text) == [tag |-> "float", v |-> text]
YNull == [tag |-> "null", v |-> <<>>]
YSeq(items) == [tag |-> "seq", v |-> items]
YMap(pairs) == [tag |-> "map", v |-> pairs]
YPair(key, node) == [k |-> YStr(Chars(key)), n |-> node]

IsScalar(node) == node.tag \notin {"seq", "map"}

\* One optional pair: present when the dict has the key.
YOptional(d, key, node) ==
    IF key \in DOMAIN d THEN <<YPair(key, node)>> ELSE <<>>

\* platform_config, keys in the order add_ocp_versions inserts them.
PlatformChannelNode(c) ==
    YMap(<<YPair("name", YStr(c.name)), YPair("type", YStr(Chars(c.type)))>>
         \o (IF "minVersion" \in DOMAIN c
             THEN <<YPair("minVersion", YStr(c.minVersion))>> ELSE <<>>)
         \o (IF "maxVersion" \in DOMAIN c
             THEN <<YPair("maxVersion", YStr(c.maxVersion))>> ELSE <<>>))

\* operator_entry, keys in the order add_operators inserts them.
PackageNode(p) ==
    YMap(<<YPair("name", YStr(Chars(p.name)))>>
         \o (IF "minVersion" \in DOMAIN p
             THEN <<YPair("minVersion", YStr(Chars(p.minVersion)))>> ELSE <<>>)
         \o (IF "maxVersion" \in DOMAIN p
             THEN <<YPair("maxVersion", YStr(Chars(p.maxVersion)))>> ELSE <<>>)
         \o (IF "channels" \in DOMAIN p
             THEN <<YPair("channels",
                     YSeq([i \in 1..Len(p.channels) |->
                            YMap(<<YPair("name",
                                         YStr(Chars(p.channels[i].name)))>>)]))>>
             ELSE <<>>))

\* operator_config.
OperatorGroupNode(g) ==
    YMap(<<YPair("catalog", YStr(g.catalog)),
           YPair("packages",
                 YSeq([i \in 1..Len(g.packages) |-> PackageNode(g.packages[i])]))>>)

\* One chart of a repository's list.
ChartNode(c) ==
    YMap(<<YPair("name", YStr(Chars(c.name))),
           YPair("version", YStr(Chars(c.version)))>>)

\* The keys of a dict of the model in one fixed order.  The document model
\* does not keep the order in which the repositories were inserted.
KeysInOrder(ks) ==
    CHOOSE s \in [1..Cardinality(ks) -> ks] :
        \A i, j \in DOMAIN s : i # j => s[i] # s[j]

\* mirror.helm.
HelmNode(helm) ==
    LET ks == KeysInOrder(DOMAIN helm)
    IN YMap([i \in 1..Len(ks) |->
                [k |-> YStr(ks[i]),
                 n |-> YSeq([j \in 1..Len(helm[ks[i]]) |->
                              ChartNode(helm[ks[i]][j])])]])

\* mirror.platform: channels and graph from __init__, kubeVirtContainer
\* inserted after them.
PlatformNode(p) ==
    YMap(<<YPair("channels",
                 YSeq([i \in 1..Len(p.channels) |->
                        PlatformChannelNode(p.channels[i])])),
           YPair("graph", YBool(p.graph))>>
         \o (IF "kubeVirtContainer" \in DOMAIN p
             THEN <<YPair("kubeVirtContainer", YBool(p.kubeVirtContainer))>>
             ELSE <<>>))

\* mirror, keys in the order of __init__.
MirrorNode(m) ==
    YMap(<<YPair("platform", PlatformNode(m.platform)),
           YPair("operators",
                 YSeq([i \in 1..Len(m.operators) |->
                        OperatorGroupNode(m.operators[i])])),
           YPair("additionalImages",
                 YSeq([i \in 1..Len(m.additionalImages) |->
                        YMap(<<YPair("name",
                                 YStr(Chars(m.additionalImages[i].name)))>>)]))>>
         \o (IF "helm" \in DOMAIN m
             THEN <<YPair("helm", HelmNode(m.helm))>> ELSE <<>>))

\* config_copy as yaml.dump represents it, root keys in the given order.
BodyNode(body, keys) ==
    YMap([i \in 1..Len(keys) |->
            YPair(keys[i],
                  CASE keys[i] = "mirror" -> MirrorNode(body.mirror)
                    [] keys[i] = "archiveSize" -> YInt(body.archiveSize)
                    [] OTHER -> YStr(Chars(body[keys[i]])))])

\* The text of a whole number.
RECURSIVE IntText(_)
IntText(n) ==
    LET digit(d) == CHOOSE c \in Digits : Ord(c) = Ord("0") + d
    IN IF n < 10 THEN <<digit(n)>>
       ELSE IntText(n \div 10) \o <<digit(n % 10)>>

NullTexts == {<<>>, <<"~">>, <<"n","u","l","l">>}

BoolTexts ==
    {<<"t","r","u","e">>, <<"f","a","l","s","e">>, <<"y","e","s">>,
     <<"n","o">>, <<"o","n">>, <<"o","f","f">>}

IsIntText(t) == t # <<>> /\ \A i \in 1..Len(t) : t[i] \in Digits

\* Digits around one ".", a digit first.
IsFloatText(t) ==
    \E i \in 2..Len(t) :
        /\ t[i] = "."
        /\ \A j \in (1..Len(t)) \ {i} : t[j] \in Digits

\* The resolver's implicit tag of a plain scalar.
ImplicitTag(t) ==
    CASE t \in NullTexts -> "null"
      [] t \in BoolTexts -> "bool"
      [] IsIntText(t) -> "int"
      [] IsFloatText(t) -> "float"
      [] OTHER -> "str"

\* Characters a plain scalar may not start with.
Indicators ==
    {"#", ",", "[", "]", "{", "}", "&", "*", "!", "|", ">", "'", "%", "@",
     " "}

\* The emitter's analysis of a string: it may be written plain.
AllowPlain(t) ==
    /\ t # <<>>
    /\ t[1] \notin Indicators
    /\ t[Len(t)] # " "
    /\ ~(t[1] \in {"-", "?", ":"} /\ (Len(t) = 1 \/ t[2] = " "))
    /\ \A i \in 1..(Len(t) - 1) :
          /\ ~(t[i] = ":" /\ t[i + 1] = " ")
          /\ ~(t[i] = " " /\ t[i + 1] = "#")
    /\ t[Len(t)] # ":"

\* A deviation the round trip must detect: every string written plain.
StrScalarAlwaysPlain(t) == [style |-> "plain", text |-> t]

\* A string as the emitter writes it: plain when that is allowed and reads
\* back as a string, single-quoted otherwise.
StrScalar(t) ==
    IF AllowPlain(t) /\ ImplicitTag(t) = "str"
    THEN [style |-> "plain", text |-> t]
    ELSE [style |-> "quoted", text |-> t]

\* A scalar node, or an empty collection, as written on one line.
Scalar(node) ==
    CASE node.tag = "str" -> StrScalar(node.v)
      [] node.tag = "bool" ->
            [style |-> "plain", text |-> Chars(IF node.v THEN "true" ELSE "false")]
      [] node.tag = "int" -> [style |-> "plain", text |-> IntText(node.v)]
      [] node.tag = "seq" -> [style |-> "flow", text |-> <<"[", "]">>]
      [] node.tag = "map" -> [style |-> "flow", text |-> <<"{", "}">>]

\* One line of the body: its indentation, "- " or nothing, and "key:",
\* "key: value" or "value".
Line(indent, dash, key, value) ==
    [indent |-> indent, dash |-> dash, key |-> key, value |-> value]

OnOneLine(node) == IsScalar(node) \/ node.v = <<>>

\* The lines of a block mapping or block sequence at an indentation.  A
\* sequence under a mapping key is written at the key's indentation; the
\* first line of a sequence item carries the "- ".
RECURSIVE EmitMap(_, _), EmitSeq(_, _)
EmitMap(pairs, indent) ==
    IF pairs = <<>> THEN <<>>
    ELSE LET p == Head(pairs)
             key == <<Scalar(p.k)>>
             own == IF OnOneLine(p.n)
                    THEN <<Line(indent, FALSE, key, <<Scalar(p.n)>>)>>
                    ELSE <<Line(indent, FALSE, key, <<>>)>>
                         \o (IF p.n.tag = "seq" THEN EmitSeq(p.n.v, indent)
                             ELSE EmitMap(p.n.v, indent + 2))
         IN own \o EmitMap(Tail(pairs), indent)

EmitSeq(items, indent) ==
    IF items = <<>> THEN <<>>
    ELSE LET item == Head(items)
             own == IF OnOneLine(item)
                    THEN <<Line(indent, TRUE, <<>>, <<Scalar(item)>>)>>
                    ELSE LET ls == EmitMap(item.v, indent + 2)
                         IN <<[ls[1] EXCEPT !.indent = indent, !.dash = TRUE]>>
                            \o Tail(ls)
         IN own \o EmitSeq(Tail(items), indent)

\* yaml.dump of the body.
YamlDump(node) == EmitMap(node.v, 0)

\* f"# {k}.{subk}: {subv}" or f"# {k}: {v}".
CommentLine(c) == [comment |-> c]

\* line.startswith("#"): a comment line, or a body line whose first
\* character is "#".
StartsWithHash(line) ==
    \/ "comment" \in DOMAIN line
    \/ /\ "comment" \notin DOMAIN line
       /\ line.indent = 0
       /\ ~line.dash
       /\ LET first == IF line.key # <<>> THEN line.key[1] ELSE line.value[1]
          IN first.style = "plain" /\ first.text # <<>> /\ first.text[1] = "#"

\* The text generate_yaml returns, as its lines.
YamlText(result) ==
    [i \in 1..Len(result.comments) |-> CommentLine(result.comments[i])]
    \o YamlDump(BodyNode(result.body, result.keys))

\* The node a one-line value is read as.
Resolve(scalar) ==
    CASE scalar.style = "quoted" -> YStr(scalar.text)
      [] scalar.style = "flow" ->
            IF scalar.text = <<"[", "]">> THEN YSeq(<<>>) ELSE YMap(<<>>)
      [] OTHER ->
            LET tag == ImplicitTag(scalar.text)
            IN CASE tag = "null" -> YNull
                 [] tag = "bool" ->
                       YBool(scalar.text \in {Chars("true"), <<"y","e","s">>,
                                              <<"o","n">>})
                 [] tag = "int" -> YInt(ToInt(scalar.text))
                 [] tag = "float" -> YFloat(scalar.text)
                 [] OTHER -> YStr(scalar.text)

\* The first line of a sequence item read as the first line of the item's
\* mapping, which sits two columns in.
ItemLine(line) == [line EXCEPT !.indent = @ + 2, !.dash = FALSE]

\* The parser: the node that starts at line i, and the first line after it.
\* ParseMap reads the keys at one indentation; ParseSeq the items whose "- "
\* is at one indentation.
RECURSIVE ParseMap(_, _, _), ParseSeq(_, _, _)
ParseMap(ls, i, indent) ==
    IF i > Len(ls) \/ ls[i].indent # indent \/ ls[i].dash \/ ls[i].key = <<>>
    THEN [node |-> YMap(<<>>), next |-> i]
    ELSE LET key == Resolve(ls[i].key[1])
             nested == /\ ls[i].value = <<>>
                       /\ i < Len(ls)
                       /\ \/ ls[i + 1].indent > indent
                          \/ ls[i + 1].indent = indent /\ ls[i + 1].dash
             sub == IF ls[i].value # <<>>
                    THEN [node |-> Resolve(ls[i].value[1]), next |-> i + 1]
                    ELSE IF ~nested THEN [node |-> YNull, next |-> i + 1]
                    ELSE IF ls[i + 1].dash
                    THEN ParseSeq(ls, i + 1, ls[i + 1].indent)
                    ELSE ParseMap(ls, i + 1, ls[i + 1].indent)
             rest == ParseMap(ls, sub.next, indent)
         IN [node |-> YMap(<<[k |-> key, n |-> sub.node]>> \o rest.node.v),
             next |-> rest.next]

ParseSeq(ls, i, indent) ==
    IF i > Len(ls) \/ ls[i].indent # indent \/ ~ls[i].dash
    THEN [node |-> YSeq(<<>>), next |-> i]
    ELSE LET item == IF ls[i].key = <<>>
                     THEN [node |-> Resolve(ls[i].value[1]), next |-> i + 1]
                     ELSE ParseMap([ls EXCEPT ![i] = ItemLine(@)], i, indent + 2)
             rest == ParseSeq(ls, item.next, indent)
         IN [node |-> YSeq(<<item.node>> \o rest.node.v), next |-> rest.next]

\* yaml.safe_load of the lines of a document.
SafeLoad(ls) == ParseMap(ls, 1, 0).node

\* "\n".join(line for line in text.splitlines() if not line.startswith("#"))
NonCommentLines(text) == SelectSeq(text, LAMBDA line : ~StartsWithHash(line))

----------------------------------------------------------------------------
(* The arguments of the builder calls *)

VersionLists ==
    {<<>>, <<V4_16_0, V4_16_1>>, <<V4_9_0, V4_10_0>>, <<V4_10_0, V4_9_0>>,
     <<V4_10_0>>}

Channels == {DefaultChannel, Stable416}

MinVersions == {None, V4_16_0}

MaxVersions == {None, V4_16_1}

StrOp(name) == [kind |-> "str", name |-> name]

DictOp(name, minVersion, maxVersion, channel) ==
    [kind |-> "dict", name |-> name, minVersion |-> minVersion,
     maxVersion |-> maxVersion, channel |-> channel]

\* An operators element that is neither a str nor a dict.
OtherOp == [kind |-> "other"]

OperatorLists ==
    {<<>>,
     <<StrOp("Logging")>>,
     <<StrOp("cluster-logging"), StrOp("logging")>>,
     <<DictOp("cluster-logging", "5.8.0", "5.8.1", "")>>,
     <<DictOp("gitops", "", "", "latest"), OtherOp>>,
     <<StrOp("my-operator")>>}

Catalogs == {RedHatIndex, RedHatIndex416}

ChannelHints == {EmptyDict, ("cluster-logging" :> "stable-5.8")}

OcpVersions == {None, Ocp416, Ocp417}

ImageLists ==
    {<<>>, <<"registry.redhat.io/ubi8/ubi:latest">>,
     <<"quay.io/a/b:1", "registry.redhat.io/ubi8/ubi:latest">>}

Chart(name, repository, version) ==
    [name |-> name, repository |-> repository, version |-> version]

ChartLists ==
    {<<>>,
     <<Chart("nginx", HelmRepoA, "1.0")>>,
     <<Chart("redis", HelmRepoB, ""), Chart("etcd", HelmRepoA, "3.5")>>,
     <<Chart("bare", None, "")>>}

ArchiveSizes == {4}

----------------------------------------------------------------------------
(* The builder's state machine *)

\* No builder exists.
BuilderIdle ==
    /\ config = EmptyDict
    /\ last = [op |-> "none"]
    /\ ncalls = 0

\* No worker serves requests, and the data directory is empty.
CacheIdle ==
    /\ fs = EmptyDict
    /\ active = {}
    /\ toolsMayFail = FALSE
    /\ req = EmptyDict
    /\ pc = EmptyDict
    /\ operator_output = EmptyDict
    /\ toolsRun = EmptyDict
    /\ resp = EmptyDict

\* No reference is being re-tagged.
TagIdle ==
    /\ tagBase = None
    /\ tagRef = None
    /\ tagHist = <<>>

\* No function that runs a subprocess has been called.
ToolIdle ==
    /\ handler = [op |-> "none"]
    /\ phase = "idle"
    /\ runs = <<>>
    /\ outcome = [kind |-> "none"]
    /\ present = {}

\* No generate request has arrived.
GenerateIdle ==
    /\ payload = EmptyDict
    /\ generator = EmptyDict
    /\ pos = EmptyDict
    /\ answer = EmptyDict

\* No tables are being parsed.
ValidateIdle ==
    /\ given = <<>>
    /\ verdict = <<>>

EnrichIdle ==
    /\ tables = EmptyDict
    /\ enriched = EmptyDict

Init ==
    /\ EnrichIdle
    /\ ValidateIdle
    /\ GenerateIdle
    /\ ToolIdle
    /\ \E now \in Timestamps : config = InitConfig(now)
    /\ last = [op |-> "__init__"]
    /\ ncalls = 0
    /\ TagIdle
    /\ CacheIdle

SetArchiveSize ==
    \E size \in ArchiveSizes :
        /\ ncalls < MaxCalls
        /\ config' = SetArchiveSizeResult(config, size)
        /\ last' = [op |-> "set_archive_size", size |-> size]
        /\ ncalls' = ncalls + 1
        /\ UNCHANGED nonBuilderVars

\* A call of add_ocp_versions, with the channel passed or left to the
\* parameter's default.
AddOcpVersions ==
    \E versions \in VersionLists, channel \in Channels, passed \in BOOLEAN,
       min_version \in MinVersions, max_version \in MaxVersions :
        /\ ncalls < MaxCalls
        /\ ~passed => channel = DefaultChannel
        /\ config' = AddOcpVersionsResult(config, versions, channel,
                                          min_version, max_version)
        /\ last' = [op |-> "add_ocp_versions", versions |-> versions,
                    channel |-> channel, channel_passed |-> passed,
                    min_version |-> min_version,
                    max_version |-> max_version, before |-> config]
        /\ ncalls' = ncalls + 1
        /\ UNCHANGED nonBuilderVars

\* The parameters of add_operators, self left out.
AddOperatorsParameters == {"operators", "catalog", "channels", "ocp_version"}

\* add_operators(**kwargs): a keyword that is no parameter raises TypeError
\* before the body runs.
CallAddOperators(cfg, kwargs) ==
    IF DOMAIN kwargs \subseteq AddOperatorsParameters
    THEN [raised |-> "",
          config |-> AddOperatorsResult(cfg, kwargs.operators, kwargs.catalog,
                                        kwargs.channels, kwargs.ocp_version)]
    ELSE [raised |-> "TypeError", config |-> cfg]

\* The newest-channel hints of a call.
NewestChannelHints == {("cluster-logging" :> "stable-5.8")}

AddOperators ==
    \E operators \in OperatorLists, catalog \in Catalogs,
       channels \in ChannelHints, ocp_version \in OcpVersions :
        /\ ncalls < MaxCalls
        /\ config' = AddOperatorsResult(config, operators, catalog, channels,
                                        ocp_version)
        /\ last' = [op |-> "add_operators", operators |-> operators,
                    catalog |-> catalog, channels |-> channels,
                    ocp_version |-> ocp_version, before |-> config]
        /\ ncalls' = ncalls + 1
        /\ UNCHANGED nonBuilderVars

\* add_operators called as the guard test calls it, with the keyword
\* newest_channel next to the four parameters.
AddOperatorsNewestChannel ==
    \E newest_channel \in NewestChannelHints :
        LET kwargs == [operators |-> <<DictOp("cluster-logging", "5.8.0", "5.8.1", "")>>,
                       catalog |-> RedHatIndex,
                       channels |-> ("cluster-logging" :> "stable-5.8"),
                       ocp_version |-> Ocp416,
                       newest_channel |-> newest_channel]
            call == CallAddOperators(config, kwargs)
        IN /\ ncalls < MaxCalls
           /\ config' = call.config
           /\ last' = [op |-> "add_operators(newest_channel)", kwargs |-> kwargs,
                       raised |-> call.raised, before |-> config]
           /\ ncalls' = ncalls + 1
           /\ UNCHANGED nonBuilderVars

AddAdditionalImages ==
    \E images \in ImageLists :
        /\ ncalls < MaxCalls
        /\ config' = AddAdditionalImagesResult(config, images)
        /\ last' = [op |-> "add_additional_images", images |-> images,
                    before |-> config]
        /\ ncalls' = ncalls + 1
        /\ UNCHANGED nonBuilderVars

AddHelmCharts ==
    \E charts \in ChartLists :
        /\ ncalls < MaxCalls
        /\ config' = AddHelmChartsResult(config, charts)
        /\ last' = [op |-> "add_helm_charts", charts |-> charts,
                    before |-> config]
        /\ ncalls' = ncalls + 1
        /\ UNCHANGED nonBuilderVars

SetKubevirtContainer ==
    \E enable \in BOOLEAN :
        /\ ncalls < MaxCalls
        /\ config' = SetKubevirtContainerResult(config, enable)
        /\ last' = [op |-> "set_kubevirt_container", enable |-> enable,
                    before |-> config]
        /\ ncalls' = ncalls + 1
        /\ UNCHANGED nonBuilderVars

\* generate_yaml() popping spec and metadata from self.config itself instead
\* of from dict(self.config).
GenerateYamlInPlace(cfg) ==
    [config |-> GenerateYaml(cfg).body, result |-> GenerateYaml(cfg)]

\* generate_yaml(): the document it leaves in self.config and what it
\* returns. Its pops, update and del act on config_copy, a new dict.
GenerateYamlRun(cfg) ==
    [config |-> cfg, result |-> GenerateYaml(cfg)]

\* generate_yaml(); it is not counted as a builder call. again says that the
\* call before it was a generate_yaml() too, and previous is what that one
\* returned.
GenerateYamlCall ==
    LET run == GenerateYamlRun(config)
        again == last.op = "generate_yaml"
    IN /\ last' = [op |-> "generate_yaml", result |-> run.result,
                   before |-> config, again |-> again,
                   previous |-> IF again THEN last.result ELSE None]
       /\ config' = run.config
       /\ UNCHANGED ncalls
       /\ UNCHANGED nonBuilderVars

Next ==
    \/ SetArchiveSize
    \/ AddOcpVersions
    \/ AddOperators
    \/ AddOperatorsNewestChannel
    \/ AddAdditionalImages
    \/ AddHelmCharts
    \/ SetKubevirtContainer
    \/ GenerateYamlCall

Spec == Init /\ [][Next]_vars

----------------------------------------------------------------------------
(* Re-tagging a catalog reference: add_operators' ocp_version handling,    *)
(* applied to its own result.                                              *)

RefAlphabet == {"r", ":", "v", "4", "."}

\* The strings over RefAlphabet of length n.
RECURSIVE RefsOfLen(_)
RefsOfLen(n) ==
    IF n = 0 THEN {<<>>}
    ELSE {Append(s, c) : s \in RefsOfLen(n - 1), c \in RefAlphabet}

Refs == UNION {RefsOfLen(n) : n \in 0..MaxRefLen}

\* s ends in ":v" and one or more digits and dots.
HasVersionTag(s) ==
    \E i \in 1..Len(s) :
        /\ i + 2 <= Len(s)
        /\ SubSeq(s, i, i + 1) = <<":", "v">>
        /\ \A j \in (i + 2)..Len(s) : s[j] \in Digits \cup {"."}

TagInit ==
    /\ EnrichIdle
    /\ ValidateIdle
    /\ GenerateIdle
    /\ ToolIdle
    /\ tagBase \in {s \in Refs \cup {RedHatIndex} : ~HasVersionTag(s)}
    /\ tagRef = tagBase
    /\ tagHist = <<>>
    /\ BuilderIdle
    /\ CacheIdle

\* The catalog of one add_operators call is the catalog the previous call stored.
Retag ==
    \E ocp_version \in OcpVersions :
        /\ Len(tagHist) < MaxTags
        /\ tagRef' = TagCatalog(tagRef, ocp_version)
        /\ tagHist' = Append(tagHist, ocp_version)
        /\ UNCHANGED tagBase
        /\ UNCHANGED nonTagVars

TagNext == Retag

TagSpec == TagInit /\ [][TagNext]_vars

----------------------------------------------------------------------------
(* More of Python's str *)

Whitespace == {" ", "\t", "\n"}

RECURSIVE LStrip(_)
LStrip(s) == IF s # <<>> /\ Head(s) \in Whitespace THEN LStrip(Tail(s)) ELSE s

RECURSIVE RStrip(_)
RStrip(s) ==
    IF s # <<>> /\ s[Len(s)] \in Whitespace
    THEN RStrip(SubSeq(s, 1, Len(s) - 1)) ELSE s

\* s.strip().
Strip(s) == RStrip(LStrip(s))

\* sub in s.
Contains(sub, s) ==
    \E i \in 1..(Len(s) - Len(sub) + 1) : SubSeq(s, i, i + Len(sub) - 1) = sub

\* xs[-1].
Last(xs) == xs[Len(xs)]

\* The concatenation of a list of strings.
RECURSIVE Concat(_)
Concat(xs) == IF xs = <<>> THEN <<>> ELSE Head(xs) \o Concat(Tail(xs))

\* A request argument that was not given (None, where "" is another value).
Absent == <<"None">>

----------------------------------------------------------------------------
(* The data directory and the operators cache paths: app.py *)

DataDir == <<"d","a","t","a">>
OperatorsPrefix == <<"o","p","e","r","a","t","o","r","s","-">>
DotJson == <<".","j","s","o","n">>
IndexSuffix == <<"-","i","n","d","e","x">>
DataSuffix == <<"-","d","a","t","a">>
ChannelSuffix == <<"-","c","h","a","n","n","e","l">>

\* os.path.join(dir, name).
PathJoin(dir, name) ==
    IF name # <<>> /\ name[1] = "/" THEN name ELSE dir \o <<"/">> \o name

\* (catalog.split('/')[-1]).split(':')[0]
CatalogIndex(catalog) == Split(Last(Split(catalog, "/")), ":")[1]

\* os.path.join("data", f"operators-{catalog_index}-{version}{suffix}.json")
OperatorsPath(catalog_index, version, suffix) ==
    PathJoin(DataDir,
             OperatorsPrefix \o catalog_index \o <<"-">> \o version
                \o suffix \o DotJson)

\* get_operators_list: the version the key is made of.
LookupVersionKey(catalog, version) ==
    LET v == IF version = Absent THEN Last(Split(catalog, ":")) ELSE version
        parts == Split(v, ".")
    IN IF Contains(<<".">>, v) THEN parts[1] \o <<".">> \o parts[2] ELSE v

\* refresh_ocp_operators: the version its paths are made of.
RefreshVersion(catalog, version) ==
    IF version = Absent \/ Strip(version) = <<>>
    THEN Last(Split(catalog, ":")) ELSE version

\* The four paths of refresh_ocp_operators.
RefreshPath(catalog, version, suffix) ==
    OperatorsPath(CatalogIndex(catalog), RefreshVersion(catalog, version), suffix)

----------------------------------------------------------------------------
(* File contents.  A file holds rendered documents (the index), text (the  *)
(* two tables) or JSON text (the snapshot); a file just opened for writing *)
(* is empty.                                                               *)

EmptyFile == [kind |-> "empty"]
DocsFile(docs) == [kind |-> "docs", docs |-> docs]
TextFile(text) == [kind |-> "text", text |-> text]
JsonFile(tree) == [kind |-> "json", tree |-> tree]
\* The head of one JSON text followed by the tail of a longer one.
GarbledFile == [kind |-> "garbled"]

\* The documents jq reads from the index file.
DocsOf(content) == IF content.kind = "docs" THEN content.docs ELSE <<>>

\* f.read() of a table.
TextOf(content) == IF content.kind = "text" THEN content.text ELSE <<>>

----------------------------------------------------------------------------
(* JSON: json.dump writes a value as a tree of JSON values, json.load reads *)
(* the value back from a file that holds one whole tree.                    *)

JString(s) == [j |-> "string", v |-> s]
JNumber(n) == [j |-> "number", v |-> n]
JArray(xs) == [j |-> "array", v |-> xs]
JObject(f) == [j |-> "object", v |-> f]

\* json.dump of one operator record.
DumpOperator(rec) ==
    JObject([k \in DOMAIN rec |->
        IF k = "keywords"
        THEN JArray([i \in 1..Len(rec[k]) |-> JString(rec[k][i])])
        ELSE JString(rec[k])])

\* json.dump({"operators": ..., "count": ..., "source": "opm", "timestamp": ...}).
DumpSnapshot(operators, now) ==
    JObject([operators |-> JArray([i \in 1..Len(operators) |->
                                      DumpOperator(operators[i])]),
             count |-> JNumber(Len(operators)),
             source |-> JString(<<"o","p","m">>),
             timestamp |-> JString(now)])

\* The value of a JSON tree.
RECURSIVE JsonValue(_)
JsonValue(t) ==
    CASE t.j = "array" -> [i \in DOMAIN t.v |-> JsonValue(t.v[i])]
      [] t.j = "object" -> [k \in DOMAIN t.v |-> JsonValue(t.v[k])]
      [] OTHER -> t.v

\* json.load(f): the value, or a parse error.
JsonLoad(content) ==
    IF content.kind = "json"
    THEN [ok |-> TRUE, value |-> JsonValue(content.tree)]
    ELSE [ok |-> FALSE]

\* The number of characters of a JSON text, without its white space; only
\* its growth with the value matters here.
RECURSIVE JsonSize(_)
RECURSIVE JsonSizeSum(_, _)
JsonSizeSum(f, keys) ==
    IF keys = {} THEN 0
    ELSE LET k == CHOOSE x \in keys : TRUE
         IN 1 + JsonSize(f[k]) + JsonSizeSum(f, keys \ {k})
JsonSize(t) ==
    CASE t.j = "string" -> 2 + Len(t.v)
      [] t.j = "number" -> 1
      [] t.j = "array" -> 2 + JsonSizeSum(t.v, DOMAIN t.v)
      [] t.j = "object" -> 2 + JsonSizeSum(t.v, DOMAIN t.v)

\* A result that is a list, or None.
NoneResult == [isNone |-> TRUE]
ListResult(xs) == [isNone |-> FALSE, value |-> xs]

\* load_operators_from_file(catalog_key, version_key).
LoadOperatorsFromFile(files, catalog_key, version_key) ==
    LET static_file_path ==
            OperatorsPath(CatalogIndex(catalog_key), version_key, <<>>)
    IN IF static_file_path \in DOMAIN files
       THEN LET data == JsonLoad(files[static_file_path])
            IN IF ~data.ok THEN NoneResult
               ELSE IF "operators" \in DOMAIN data.value
                    THEN ListResult(data.value.operators)
                    ELSE ListResult(<<>>)
       ELSE NoneResult

----------------------------------------------------------------------------
(* The external tools: opm render writes the catalog's documents, jq writes *)
(* one tab-separated row per selected document.                             *)

BundleDoc(package, name, version, metadata, maxOcp) ==
    [schema |-> "olm.bundle", package |-> package, name |-> name,
     version |-> version, metadata |-> metadata, maxOcp |-> maxOcp]

\* A bundle's olm.csv.metadata property; NoMetadata: the bundle has none.
Metadata(keywords, description) ==
    [has |-> TRUE, keywords |-> keywords, description |-> description]
NoMetadata == [has |-> FALSE]

ChannelDoc(package, name, entries) ==
    [schema |-> "olm.channel", package |-> package, name |-> name,
     entries |-> entries]

\* What opm render prints for the catalog of the model.
CatalogDocs ==
    <<BundleDoc(<<"a">>, <<"a", ".", "1">>, <<"1">>,
                Metadata(<<<<"k">>, <<"m">>>>, <<"d">>), FALSE),
      ChannelDoc(<<"a">>, <<"s">>, <<<<"a", ".", "1">>>>),
      BundleDoc(<<"b">>, <<"b", ".", "1">>, <<"2">>, NoMetadata, FALSE)>>

\* @tsv of a list of fields, and the line end jq -r prints after it.  The
\* fields of the model hold no tab, line end or backslash, which @tsv escapes.
TsvRow(fields) == Join(fields, "\t") \o <<"\n">>

\* jq_filter on one document: no row, or one.
BundleRowsOf(doc) ==
    IF doc.schema = "olm.bundle" /\ ~doc.maxOcp
    THEN IF doc.metadata.has
         THEN <<TsvRow(<<doc.package, doc.name, doc.version,
                         Join(doc.metadata.keywords, ","),
                         doc.metadata.description>>)>>
         ELSE <<TsvRow(<<doc.package, doc.name, doc.version, <<>>>>)>>
    ELSE <<>>

\* jq_filter_channel on one document: .channelName is null, an empty field.
ChannelRowsOf(doc) ==
    IF doc.schema = "olm.channel"
    THEN <<TsvRow(<<doc.package, doc.name>> \o doc.entries \o <<<<>>>>)>>
    ELSE <<>>

\* The rows of the bundle pass over a document stream.
RECURSIVE BundleRows(_)
BundleRows(docs) ==
    IF docs = <<>> THEN <<>>
    ELSE BundleRowsOf(Head(docs)) \o BundleRows(Tail(docs))

\* The rows of the channel pass over a document stream.
RECURSIVE ChannelRows(_)
ChannelRows(docs) ==
    IF docs = <<>> THEN <<>>
    ELSE ChannelRowsOf(Head(docs)) \o ChannelRows(Tail(docs))

----------------------------------------------------------------------------
(* refresh_ocp_operators: parsing the two tables *)

\* The channel search for one bundle name: the first line of the channel
\* table that contains the name gives its second field.
\* [found, error, channel]: error when that line has no second field.
FindChannel(name, channel_data) ==
    LET lines == Split(Strip(channel_data), "\n")
        hits == {i \in 1..Len(lines) : Contains(name, lines[i])}
    IN IF hits = {} THEN [found |-> FALSE, error |-> FALSE]
       ELSE LET first == CHOOSE i \in hits : \A k \in hits : i <= k
                channel_fields == Split(lines[first], "\t")
            IN IF Len(channel_fields) < 2
               THEN [found |-> FALSE, error |-> TRUE]
               ELSE [found |-> TRUE, error |-> FALSE,
                     channel |-> channel_fields[2]]

\* The record of one line of the bundle table, before the channel search.
\* Fewer than three fields: fields[1] or fields[2] raises IndexError.
LineRecord(fields) ==
    IF Len(fields) < 5
    THEN [package |-> fields[1], name |-> fields[2], version |-> fields[3]]
    ELSE [package |-> fields[1], name |-> fields[2], version |-> fields[3],
          keywords |-> IF fields[4] # <<>> THEN Split(fields[4], ",") ELSE <<>>,
          description |-> fields[5],
          channel |-> IF Len(fields) > 5 THEN fields[6] ELSE <<>>]

\* The loop over the bundle table's lines: [ok, operators].
RECURSIVE ParseLines(_, _)
ParseLines(lines, channel_data) ==
    IF lines = <<>> THEN [ok |-> TRUE, operators |-> <<>>]
    ELSE LET fields == Split(Head(lines), "\t")
         IN IF Len(fields) < 3 THEN [ok |-> FALSE]
            ELSE LET found == FindChannel(fields[2], channel_data)
                     rec == IF found.found
                            THEN Put(LineRecord(fields), "channel", found.channel)
                            ELSE LineRecord(fields)
                     rest == ParseLines(Tail(lines), channel_data)
                 IN IF found.error \/ ~rest.ok THEN [ok |-> FALSE]
                    ELSE [ok |-> TRUE, operators |-> <<rec>> \o rest.operators]

\* The "Parse TSV Output Files" block: [ok, operators]; not ok: an exception.
ParseTables(data, channel_data) ==
    ParseLines(Split(Strip(data), "\n"), channel_data)

----------------------------------------------------------------------------
(* Serving GET /api/operators/list: get_operators_list, and the            *)
(* refresh_ocp_operators it calls on a miss, step by step.                 *)

Workers == {"w1", "w2"}

\* The lookups served: a version, a patch version, no version with a tagged
\* catalog, a blank version.  Two workers serve lookups of one key.
Requests ==
    {[catalog |-> RedHatIndex, version |-> Ocp416],
     [catalog |-> RedHatIndex416, version |-> Absent],
     [catalog |-> RedHatIndex, version |-> <<"4",".","1","6",".","3">>],
     [catalog |-> RedHatIndex416, version |-> <<>>]}

\* datetime.now().isoformat() of a snapshot.
SnapshotTime == <<"2","0","2","5","-","0","1","-","0","1","T","0","0",":","0","0",":","0","1">>

\* The version get_operators_list hands to refresh_ocp_operators.
VersionKeyOf(w) == LookupVersionKey(req[w].catalog, req[w].version)

\* The path load_operators_from_file reads for worker w's request.
LookupPath(w) == OperatorsPath(CatalogIndex(req[w].catalog), VersionKeyOf(w), <<>>)

\* The paths refresh_ocp_operators uses for worker w's request.
StaticFilePath(w) == RefreshPath(req[w].catalog, VersionKeyOf(w), <<>>)
StaticFilePathIndex(w) == RefreshPath(req[w].catalog, VersionKeyOf(w), IndexSuffix)
StaticFilePathData(w) == RefreshPath(req[w].catalog, VersionKeyOf(w), DataSuffix)
StaticFilePathChannel(w) == RefreshPath(req[w].catalog, VersionKeyOf(w), ChannelSuffix)

CacheInit ==
    /\ EnrichIdle
    /\ ValidateIdle
    /\ GenerateIdle
    /\ ToolIdle
    /\ fs = EmptyDict
    /\ active \in {{"w1"}, Workers}
    /\ toolsMayFail \in BOOLEAN
    /\ req \in [Workers -> Requests]
    /\ OperatorsPath(CatalogIndex(req["w2"].catalog),
                     LookupVersionKey(req["w2"].catalog, req["w2"].version), <<>>)
         = OperatorsPath(CatalogIndex(req["w1"].catalog),
                         LookupVersionKey(req["w1"].catalog, req["w1"].version), <<>>)
    /\ active = {"w1"} => req["w2"] = req["w1"]
    /\ pc = [w \in Workers |-> "idle"]
    /\ operator_output = [w \in Workers |-> <<>>]
    /\ toolsRun = [w \in Workers |-> <<>>]
    /\ resp = [w \in Workers |-> [status |-> "none"]]
    /\ BuilderIdle
    /\ TagIdle

\* jsonify(...) of get_operators_list after refresh_ocp_operators returned:
\* the operators value is the Response (or the (Response, code) pair) that
\* refresh_ocp_operators returned, which jsonify cannot serialize; the
\* handler's except branch answers.
LookupFailedResponse ==
    [code |-> 500, status |-> "error", source |-> "exception"]

\* get_operators_list up to the call of refresh_ocp_operators: a hit answers.
Lookup(w) ==
    /\ w \in active
    /\ pc[w] \in {"idle", "done"}
    /\ LET operators == LoadOperatorsFromFile(fs, req[w].catalog, VersionKeyOf(w))
       IN IF operators.isNone
          THEN /\ pc' = [pc EXCEPT ![w] = "refresh"]
               /\ resp' = [resp EXCEPT ![w] = [status |-> "none"]]
          ELSE /\ pc' = [pc EXCEPT ![w] = "done"]
               /\ resp' = [resp EXCEPT ![w] =
                              [code |-> 200, status |-> "success",
                               operators |-> operators.value]]
    /\ toolsRun' = [toolsRun EXCEPT ![w] = <<>>]
    /\ operator_output' = [operator_output EXCEPT ![w] = <<>>]
    /\ UNCHANGED <<fs, active, toolsMayFail, req>>
    /\ UNCHANGED nonCacheVars

\* "if not os.path.exists(static_file_path_index)": open(..., 'w') creates
\* the index file and opm render starts writing to it.
CheckIndex(w) ==
    /\ w \in active
    /\ pc[w] = "refresh"
    /\ IF StaticFilePathIndex(w) \in DOMAIN fs
       THEN /\ pc' = [pc EXCEPT ![w] = "bundle"]
            /\ UNCHANGED <<fs, toolsRun>>
       ELSE /\ pc' = [pc EXCEPT ![w] = "render"]
            /\ fs' = Put(fs, StaticFilePathIndex(w), DocsFile(<<>>))
            /\ toolsRun' = [toolsRun EXCEPT ![w] = Append(@, "opm")]
    /\ UNCHANGED <<active, toolsMayFail, req, operator_output, resp>>
    /\ UNCHANGED nonCacheVars

\* opm render prints its next document into the index file.
RenderWrite(w) ==
    /\ w \in active
    /\ pc[w] = "render"
    /\ LET written == DocsOf(fs[StaticFilePathIndex(w)])
       IN /\ Len(written) < Len(CatalogDocs)
          /\ fs' = Put(fs, StaticFilePathIndex(w),
                       DocsFile(Append(written, CatalogDocs[Len(written) + 1])))
    /\ UNCHANGED <<active, toolsMayFail, req, pc, operator_output, toolsRun, resp>>
    /\ UNCHANGED nonCacheVars

\* opm render exits 0, all its documents printed.
RenderDone(w) ==
    /\ w \in active
    /\ pc[w] = "render"
    /\ DocsOf(fs[StaticFilePathIndex(w)]) = CatalogDocs
    /\ pc' = [pc EXCEPT ![w] = "bundle"]
    /\ UNCHANGED <<fs, active, toolsMayFail, req, operator_output, toolsRun, resp>>
    /\ UNCHANGED nonCacheVars

\* opm render exits non-zero (CalledProcessError): refresh_ocp_operators
\* returns its 500 response, whatever was printed stays in the index file.
RenderFail(w) ==
    /\ w \in active
    /\ toolsMayFail
    /\ pc[w] = "render"
    /\ Len(DocsOf(fs[StaticFilePathIndex(w)])) < Len(CatalogDocs)
    /\ pc' = [pc EXCEPT ![w] = "failed"]
    /\ UNCHANGED <<fs, active, toolsMayFail, req, operator_output, toolsRun, resp>>
    /\ UNCHANGED nonCacheVars

\* "if not os.path.exists(static_file_path_data)": open(..., "w") creates the
\* bundle table and jq starts.
BundlePass(w) ==
    /\ w \in active
    /\ pc[w] = "bundle"
    /\ IF StaticFilePathData(w) \in DOMAIN fs
       THEN /\ pc' = [pc EXCEPT ![w] = "channel"]
            /\ UNCHANGED <<fs, toolsRun>>
       ELSE /\ pc' = [pc EXCEPT ![w] = "bundleRun"]
            /\ fs' = Put(fs, StaticFilePathData(w), TextFile(<<>>))
            /\ toolsRun' = [toolsRun EXCEPT ![w] = Append(@, "jq")]
    /\ UNCHANGED <<active, toolsMayFail, req, operator_output, resp>>
    /\ UNCHANGED nonCacheVars

\* jq exits 0: the rows of the documents the index file holds.
BundleDone(w) ==
    /\ w \in active
    /\ pc[w] = "bundleRun"
    /\ fs' = Put(fs, StaticFilePathData(w),
                 TextFile(Concat(BundleRows(DocsOf(fs[StaticFilePathIndex(w)])))))
    /\ pc' = [pc EXCEPT ![w] = "channel"]
    /\ UNCHANGED <<active, toolsMayFail, req, operator_output, toolsRun, resp>>
    /\ UNCHANGED nonCacheVars

\* jq exits non-zero after printing some of its rows (CalledProcessError).
BundleFail(w) ==
    /\ w \in active
    /\ toolsMayFail
    /\ pc[w] = "bundleRun"
    /\ LET rows == BundleRows(DocsOf(fs[StaticFilePathIndex(w)]))
       IN \E n \in 0..Len(rows) :
            fs' = Put(fs, StaticFilePathData(w),
                      TextFile(Concat(SubSeq(rows, 1, n))))
    /\ pc' = [pc EXCEPT ![w] = "failed"]
    /\ UNCHANGED <<active, toolsMayFail, req, operator_output, toolsRun, resp>>
    /\ UNCHANGED nonCacheVars

\* "if not os.path.exists(static_file_path_channel)": open(..., "w") creates
\* the channel table and jq starts.
ChannelPass(w) ==
    /\ w \in active
    /\ pc[w] = "channel"
    /\ IF StaticFilePathChannel(w) \in DOMAIN fs
       THEN /\ pc' = [pc EXCEPT ![w] = "parse"]
            /\ UNCHANGED <<fs, toolsRun>>
       ELSE /\ pc' = [pc EXCEPT ![w] = "channelRun"]
            /\ fs' = Put(fs, StaticFilePathChannel(w), TextFile(<<>>))
            /\ toolsRun' = [toolsRun EXCEPT ![w] = Append(@, "jq")]
    /\ UNCHANGED <<active, toolsMayFail, req, operator_output, resp>>
    /\ UNCHANGED nonCacheVars

\* jq exits 0: the rows of the documents the index file holds.
ChannelDone(w) ==
    /\ w \in active
    /\ pc[w] = "channelRun"
    /\ fs' = Put(fs, StaticFilePathChannel(w),
                 TextFile(Concat(ChannelRows(DocsOf(fs[StaticFilePathIndex(w)])))))
    /\ pc' = [pc EXCEPT ![w] = "parse"]
    /\ UNCHANGED <<active, toolsMayFail, req, operator_output, toolsRun, resp>>
    /\ UNCHANGED nonCacheVars

\* jq exits non-zero after printing some of its rows (CalledProcessError).
ChannelFail(w) ==
    /\ w \in active
    /\ toolsMayFail
    /\ pc[w] = "channelRun"
    /\ LET rows == ChannelRows(DocsOf(fs[StaticFilePathIndex(w)]))
       IN \E n \in 0..Len(rows) :
            fs' = Put(fs, StaticFilePathChannel(w),
                      TextFile(Concat(SubSeq(rows, 1, n))))
    /\ pc' = [pc EXCEPT ![w] = "failed"]
    /\ UNCHANGED <<active, toolsMayFail, req, operator_output, toolsRun, resp>>
    /\ UNCHANGED nonCacheVars

\* The "Parse TSV Output Files" block: the tables as they are now.
ParseStep(w) ==
    /\ w \in active
    /\ pc[w] = "parse"
    /\ LET parsed == ParseTables(TextOf(fs[StaticFilePathData(w)]),
                                 TextOf(fs[StaticFilePathChannel(w)]))
       IN IF parsed.ok
          THEN /\ operator_output' = [operator_output EXCEPT ![w] = parsed.operators]
               /\ pc' = [pc EXCEPT ![w] = "write"]
          ELSE /\ pc' = [pc EXCEPT ![w] = "failed"]
               /\ UNCHANGED operator_output
    /\ UNCHANGED <<fs, active, toolsMayFail, req, toolsRun, resp>>
    /\ UNCHANGED nonCacheVars

\* open(static_file_path, "w"): the snapshot file is empty from here.
WriteOpen(w) ==
    /\ w \in active
    /\ pc[w] = "write"
    /\ fs' = Put(fs, StaticFilePath(w), EmptyFile)
    /\ pc' = [pc EXCEPT ![w] = "dump"]
    /\ UNCHANGED <<active, toolsMayFail, req, operator_output, toolsRun, resp>>
    /\ UNCHANGED nonCacheVars

\* What the file holds once a writer that opened it before puts its text
\* at the start of it: its text, or, over a longer text another writer put
\* there since, its text followed by the rest of the other.
Overwritten(content, tree) ==
    IF content.kind = "json" /\ JsonSize(tree) < JsonSize(content.tree)
    THEN GarbledFile
    ELSE IF content.kind = "garbled" THEN GarbledFile
    ELSE JsonFile(tree)

\* json.dump(...) and the close of the file: the text reaches the file, and
\* refresh_ocp_operators returns its success response.
WriteClose(w) ==
    /\ w \in active
    /\ pc[w] = "dump"
    /\ fs' = Put(fs, StaticFilePath(w),
                 Overwritten(fs[StaticFilePath(w)],
                             DumpSnapshot(operator_output[w], SnapshotTime)))
    /\ pc' = [pc EXCEPT ![w] = "refreshed"]
    /\ UNCHANGED <<active, toolsMayFail, req, operator_output, toolsRun, resp>>
    /\ UNCHANGED nonCacheVars

\* get_operators_list after refresh_ocp_operators returned.
Respond(w) ==
    /\ w \in active
    /\ pc[w] \in {"refreshed", "failed"}
    /\ resp' = [resp EXCEPT ![w] = LookupFailedResponse]
    /\ pc' = [pc EXCEPT ![w] = "done"]
    /\ UNCHANGED <<fs, active, toolsMayFail, req, operator_output, toolsRun>>
    /\ UNCHANGED nonCacheVars

CacheNext ==
    \/ \E w \in Workers : Lookup(w)
    \/ \E w \in Workers : CheckIndex(w)
    \/ \E w \in Workers : RenderWrite(w)
    \/ \E w \in Workers : RenderDone(w)
    \/ \E w \in Workers : RenderFail(w)
    \/ \E w \in Workers : BundlePass(w)
    \/ \E w \in Workers : BundleDone(w)
    \/ \E w \in Workers : BundleFail(w)
    \/ \E w \in Workers : ChannelPass(w)
    \/ \E w \in Workers : ChannelDone(w)
    \/ \E w \in Workers : ChannelFail(w)
    \/ \E w \in Workers : ParseStep(w)
    \/ \E w \in Workers : WriteOpen(w)
    \/ \E w \in Workers : WriteClose(w)
    \/ \E w \in Workers : Respond(w)

CacheSpec == CacheInit /\ [][CacheNext]_vars

----------------------------------------------------------------------------
(* The cache file paths get_operators_list derives from its two arguments, *)
(* for catalog references and version strings of any shape.                *)

MaxVersionLen == 3

PathAlphabet == {"4", ".", "/"}

\* The strings over PathAlphabet of length n.
RECURSIVE PathStringsOfLen(_)
PathStringsOfLen(n) ==
    IF n = 0 THEN {<<>>}
    ELSE {Append(s, c) : s \in PathStringsOfLen(n - 1), c \in PathAlphabet}

\* The version arguments: none, or a string.
PathVersions ==
    {Absent} \cup UNION {PathStringsOfLen(n) : n \in 0..MaxVersionLen}

\* The catalog arguments: the index with and without a tag, and an index
\* of a registry given with its port.
PathCatalogs ==
    {RedHatIndex, RedHatIndex416, <<"r", ":", "5", "/", "i">>}

PathRequests ==
    {[catalog |-> c, version |-> v] : c \in PathCatalogs, v \in PathVersions}

PathInit ==
    /\ EnrichIdle
    /\ ValidateIdle
    /\ GenerateIdle
    /\ ToolIdle
    /\ fs = EmptyDict
    /\ active = {"w1"}
    /\ toolsMayFail = FALSE
    /\ \E r \in PathRequests : req = [w \in Workers |-> r]
    /\ pc = [w \in Workers |-> "idle"]
    /\ operator_output = [w \in Workers |-> <<>>]
    /\ toolsRun = [w \in Workers |-> <<>>]
    /\ resp = [w \in Workers |-> [status |-> "none"]]
    /\ BuilderIdle
    /\ TagIdle

\* Worker w has derived path in function fn.
Derived(w, fn, path) ==
    /\ w \in active
    /\ pc[w] = "idle"
    /\ resp' = [resp EXCEPT ![w] = [status |-> "none", fn |-> fn, path |-> path]]
    /\ pc' = [pc EXCEPT ![w] = "done"]
    /\ UNCHANGED <<fs, active, toolsMayFail, req, operator_output, toolsRun>>
    /\ UNCHANGED nonCacheVars

\* get_operators_list up to load_operators_from_file's static_file_path.
DeriveLookupPath(w) == Derived(w, "load_operators_from_file", LookupPath(w))

\* get_operators_list up to refresh_ocp_operators' static_file_path.
DeriveRefreshPath(w) == Derived(w, "refresh_ocp_operators", StaticFilePath(w))

PathNext ==
    \/ \E w \in Workers : DeriveLookupPath(w)
    \/ \E w \in Workers : DeriveRefreshPath(w)

PathSpec == PathInit /\ [][PathNext]_vars

----------------------------------------------------------------------------
(* Claims about the document builder *)

\* tuple(map(int, v.split("."))).
VersionTuple(v) == LET parts == Split(v, ".")
                   IN [i \in 1..Len(parts) |-> ToInt(parts[i])]

\* a < b on tuples of numbers.
RECURSIVE TupleLess(_, _)
TupleLess(a, b) ==
    IF b = <<>> THEN FALSE
    ELSE IF a = <<>> THEN TRUE
    ELSE IF Head(a) # Head(b) THEN Head(a) < Head(b)
    ELSE TupleLess(Tail(a), Tail(b))

\* The entries of a version list that no entry is below, as numeric tuples.
NumericLeast(versions) ==
    {versions[i] : i \in {k \in 1..Len(versions) :
        \A j \in 1..Len(versions) :
            ~TupleLess(VersionTuple(versions[j]), VersionTuple(versions[k]))}}

\* The entries of a version list that no entry is above, as numeric tuples.
NumericGreatest(versions) ==
    {versions[i] : i \in {k \in 1..Len(versions) :
        \A j \in 1..Len(versions) :
            ~TupleLess(VersionTuple(versions[k]), VersionTuple(versions[j]))}}

LastChannel == LET chs == config.spec.mirror.platform.channels IN chs[Len(chs)]

LegacyCall ==
    /\ last.op = "add_ocp_versions"
    /\ ~Truthy(last.min_version)
    /\ ~Truthy(last.max_version)
    /\ Truthy(last.versions)

\* C1: after add_ocp_versions with a non-empty legacy list and no
\* min_version/max_version, the appended channel's minVersion is the least and
\* its maxVersion the greatest list entry under numeric-tuple comparison.
C1_LegacyMinMaxNumeric ==
    LegacyCall =>
        /\ LastChannel.minVersion \in NumericLeast(last.versions)
        /\ LastChannel.maxVersion \in NumericGreatest(last.versions)

\* The platform channels of a document.
PlatformChannels(cfg) == cfg.spec.mirror.platform.channels

\* The document with its platform channels replaced.
WithPlatformChannels(cfg, chs) ==
    [cfg EXCEPT !.spec.mirror.platform.channels = chs]

ExplicitCall ==
    /\ last.op = "add_ocp_versions"
    /\ Truthy(last.min_version) \/ Truthy(last.max_version)

\* The channel entry that carries the given bounds, and only those given.
BoundsEntry(channel, min_version, max_version) ==
    LET keys == {"name", "type"}
                  \cup (IF Truthy(min_version) THEN {"minVersion"} ELSE {})
                  \cup (IF Truthy(max_version) THEN {"maxVersion"} ELSE {})
    IN [k \in keys |->
           CASE k = "name" -> channel
             [] k = "type" -> "ocp"
             [] k = "minVersion" -> min_version
             [] k = "maxVersion" -> max_version]

\* C24: add_ocp_versions with a min_version or a max_version appends one
\* platform channel with the given bounds, whatever list of versions comes
\* with them, and changes nothing else; with neither bounds nor a non-empty
\* list it leaves the document as it was.
C24_ExplicitBoundsOneChannel ==
    last.op = "add_ocp_versions" =>
        /\ ExplicitCall =>
              config = WithPlatformChannels(last.before,
                           Append(PlatformChannels(last.before),
                                  BoundsEntry(last.channel, last.min_version,
                                              last.max_version)))
        /\ (~ExplicitCall /\ ~Truthy(last.versions)) => config = last.before

\* A call with a max_version only and a legacy list was made on a document
\* that had a channel.
C24_Witness ==
    /\ ExplicitCall
    /\ ~Truthy(last.min_version)
    /\ Truthy(last.versions)
    /\ Len(PlatformChannels(last.before)) = 1
    /\ Len(PlatformChannels(config)) = 2

\* C25: the channel stored by add_ocp_versions is 'stable-<major.minor of the
\* first list entry>' when the legacy list is used and the caller left the
\* channel at its default, and the channel the caller passed otherwise, one
\* equal to the default included.
C25_ChannelDerivedOnlyFromDefault ==
    (last.op = "add_ocp_versions"
        /\ PlatformChannels(config) # PlatformChannels(last.before)) =>
        LastChannel.name =
            IF LegacyCall /\ ~last.channel_passed
            THEN StablePrefix \o Join(FirstTwo(Split(last.versions[1], ".")), ".")
            ELSE last.channel

OperatorGroups == config.spec.mirror.operators

\* C2: no catalog group holds two package entries with the same name.
C2_PackageNamesUnique ==
    \A g \in 1..Len(OperatorGroups) :
        LET pkgs == OperatorGroups[g].packages
        IN \A i, j \in 1..Len(pkgs) : pkgs[i].name = pkgs[j].name => i = j

\* C3: the operators list holds at most one catalog group per catalog reference.
C3_OneGroupPerCatalog ==
    \A g, h \in 1..Len(OperatorGroups) :
        OperatorGroups[g].catalog = OperatorGroups[h].catalog => g = h

\* x is a list (of at most MaxCalls * 2 elements, the longest the runs build).
IsList(x) == \E n \in 0..(2 * MaxCalls) : DOMAIN x = 1..n

StructurallyComplete(cfg) ==
    /\ {"apiVersion", "kind", "metadata", "spec"} \subseteq DOMAIN cfg
    /\ cfg.apiVersion = "mirror.openshift.io/v1alpha2"
    /\ cfg.kind = "ImageSetConfiguration"
    /\ "mirror" \in DOMAIN cfg.spec
    /\ DOMAIN cfg.spec.mirror =
          {"platform", "operators", "additionalImages", "helm"}
    /\ {"channels", "graph"} \subseteq DOMAIN cfg.spec.mirror.platform
    /\ IsList(cfg.spec.mirror.platform.channels)
    /\ cfg.spec.mirror.platform.graph = TRUE
    /\ IsList(cfg.spec.mirror.operators)
    /\ \A g \in DOMAIN cfg.spec.mirror.operators :
          /\ DOMAIN cfg.spec.mirror.operators[g] = {"catalog", "packages"}
          /\ IsList(cfg.spec.mirror.operators[g].packages)
    /\ IsList(cfg.spec.mirror.additionalImages)
    /\ \A k \in DOMAIN cfg.spec.mirror.helm :
          /\ IsList(cfg.spec.mirror.helm[k])
          /\ \A i \in DOMAIN cfg.spec.mirror.helm[k] :
                DOMAIN cfg.spec.mirror.helm[k][i] = {"name", "version"}

\* generate_yaml returned a document: its body holds apiVersion, kind and the
\* mirror section of the document it was called on.
YamlSucceeded(result, cfg) ==
    /\ {"apiVersion", "kind", "mirror"} \subseteq DOMAIN result.body
    /\ result.body.apiVersion = cfg.apiVersion
    /\ result.body.kind = cfg.kind
    /\ result.body.mirror = cfg.spec.mirror

\* C7: after any sequence of builder calls, the empty one included, the
\* document is structurally complete, and generate_yaml succeeds on it.
C7_AlwaysSerializable ==
    /\ StructurallyComplete(config)
    /\ YamlSucceeded(GenerateYaml(config), config)
    /\ last.op = "generate_yaml" => YamlSucceeded(last.result, config)

C7_Witness ==
    /\ last.op = "generate_yaml"
    /\ ncalls >= 2
    /\ Len(config.spec.mirror.operators) > 0
    /\ DOMAIN config.spec.mirror.helm # {}

Platform == config.spec.mirror.platform

\* C8: the platform section has no kubeVirtContainer key or has it true;
\* after set_kubevirt_container(false) the key is absent, also when it was
\* absent before, and after set_kubevirt_container(true) it is true.
C8_KubevirtNeverFalse ==
    /\ "kubeVirtContainer" \in DOMAIN Platform => Platform.kubeVirtContainer = TRUE
    /\ (last.op = "set_kubevirt_container" /\ ~last.enable)
          => "kubeVirtContainer" \notin DOMAIN Platform
    /\ (last.op = "set_kubevirt_container" /\ last.enable)
          => /\ "kubeVirtContainer" \in DOMAIN Platform
             /\ Platform.kubeVirtContainer = TRUE

\* Enabled by an earlier call, then disabled.
C8_Witness ==
    /\ last.op = "set_kubevirt_container"
    /\ ~last.enable
    /\ "kubeVirtContainer" \in DOMAIN last.before.spec.mirror.platform
    /\ "kubeVirtContainer" \notin DOMAIN Platform

\* The versions given to the taggings so far, those without one left out.
TagsApplied == SelectSeq(tagHist, Truthy)

\* C9: an untagged reference c tagged with v1 and then with v2 is c followed
\* by ":v" and v2: the earlier tag is stripped, never stacked, so the
\* reference carries at most one version tag; a tagging without an
\* ocp_version leaves the reference as it is.
C9_RetagKeepsOneTag ==
    /\ TagsApplied = <<>> => tagRef = tagBase
    /\ TagsApplied # <<>> =>
          /\ tagRef = tagBase \o <<":", "v">> \o TagsApplied[Len(TagsApplied)]
          /\ HasVersionTag(tagRef)
          /\ ~HasVersionTag(SubSeq(tagRef, 1,
                 Len(tagRef) - 2 - Len(TagsApplied[Len(TagsApplied)])))

\* Tagged with 4.16, then with 4.17.
C9_Witness ==
    /\ tagHist = <<Ocp416, Ocp417>>
    /\ tagBase = RedHatIndex
    /\ tagRef = RedHatIndex \o <<":", "v", "4", ".", "1", "7">>

LastGroup == OperatorGroups[Len(OperatorGroups)]

\* The number of str and dict elements among the first i operators.
RECURSIVE EntriesUpTo(_, _)
EntriesUpTo(operators, i) ==
    IF i = 0 THEN 0
    ELSE EntriesUpTo(operators, i - 1)
         + (IF operators[i].kind \in {"str", "dict"} THEN 1 ELSE 0)

\* A dict operator with version bounds and no channel of its own, whose name
\* the channel hints map to a channel.
HintedSpec(op, channels) ==
    /\ op.kind = "dict"
    /\ op.channel = ""
    /\ op.minVersion # ""
    /\ op.maxVersion # ""
    /\ op.name \in DOMAIN channels
    /\ channels[op.name] # ""

CanonicalNames == {OperatorMappings[a] : a \in DOMAIN OperatorMappings}

\* C26: the package entry of a string operator is named by the alias table's
\* target for the lower-cased input when that is an alias, and by the input
\* otherwise; the entry of a structured operator whose name is a canonical
\* package name keeps that name; and resolving the name of an entry again
\* changes nothing.
C26_AliasResolution ==
    (last.op = "add_operators" /\ Truthy(last.operators)) =>
        \A i \in 1..Len(last.operators) :
            last.operators[i].kind \in {"str", "dict"} =>
                LET op == last.operators[i]
                    pkg == LastGroup.packages[EntriesUpTo(last.operators, i)]
                IN /\ (op.kind = "str" /\ Lower(op.name) \in DOMAIN OperatorMappings)
                         => pkg.name = OperatorMappings[Lower(op.name)]
                   /\ (op.kind = "str" /\ Lower(op.name) \notin DOMAIN OperatorMappings)
                         => pkg.name = op.name
                   /\ (op.kind = "dict" /\ op.name \in CanonicalNames)
                         => pkg.name = op.name
                   /\ ResolvePackage(pkg.name) = pkg.name
                   /\ pkg.name \in CanonicalNames
                         => Lower(pkg.name) \notin DOMAIN OperatorMappings

\* An alias written with capitals was resolved to its package.
C26_Witness ==
    /\ last.op = "add_operators"
    /\ \E i \in 1..Len(last.operators) :
          /\ last.operators[i] = StrOp("Logging")
          /\ LastGroup.packages[EntriesUpTo(last.operators, i)].name = "cluster-logging"

\* A repository string with every "/" and every ":" made a "-".
Dashed(repository) ==
    [i \in 1..Len(repository) |->
        IF repository[i] \in {"/", ":"} THEN "-" ELSE repository[i]]

\* The helm entries of the charts of a call whose repository has the key,
\* in the order of the call.
RECURSIVE ChartsUnder(_, _)
ChartsUnder(charts, key) ==
    IF charts = <<>> THEN <<>>
    ELSE (IF Dashed(Head(charts).repository) = key
          THEN <<[name |-> Head(charts).name, version |-> Head(charts).version]>>
          ELSE <<>>) \o ChartsUnder(Tail(charts), key)

\* C27: after add_helm_charts the helm section holds, under every key, the
\* entries it held before followed by the call's charts whose repository,
\* with every "/" and ":" replaced by "-", is that key, in call order; and
\* it has no key besides those it had and those of the call's charts.
C27_HelmChartsFiledByRepository ==
    last.op = "add_helm_charts" =>
        LET old == last.before.spec.mirror.helm
            new == config.spec.mirror.helm
            had(k) == IF k \in DOMAIN old THEN old[k] ELSE <<>>
        IN /\ DOMAIN new = DOMAIN old \cup
                              {Dashed(last.charts[i].repository) :
                                   i \in 1..Len(last.charts)}
           /\ \A k \in DOMAIN new : new[k] = had(k) \o ChartsUnder(last.charts, k)

\* A call added a chart under a key that held one of an earlier call, and
\* another chart under a key of its own.
C27_Witness ==
    /\ last.op = "add_helm_charts"
    /\ LET old == last.before.spec.mirror.helm
           new == config.spec.mirror.helm
       IN /\ \E k \in DOMAIN old : Len(old[k]) = 1 /\ Len(new[k]) = 2
          /\ DOMAIN new # DOMAIN old
          /\ \E k \in DOMAIN new : Contains(<<"-", "-", "-">>, k)

\* The sections of a document.
Mirror(cfg) == cfg.spec.mirror

\* xs begins with ys.
Extends(xs, ys) == Len(xs) >= Len(ys) /\ SubSeq(xs, 1, Len(ys)) = ys

\* C28: add_ocp_versions only appends to platform.channels, add_operators
\* only to operators, add_additional_images only to additionalImages,
\* add_helm_charts changes helm only and set_kubevirt_container
\* platform.kubeVirtContainer only; apiVersion, kind, metadata and the other
\* sections are as they were before the call.
C28_OnlyOwnSection ==
    LET before == last.before
    IN /\ last.op = "add_ocp_versions" =>
             /\ config = WithPlatformChannels(before, PlatformChannels(config))
             /\ Extends(PlatformChannels(config), PlatformChannels(before))
       /\ last.op = "add_operators" =>
             /\ config = [before EXCEPT !.spec.mirror.operators =
                                            Mirror(config).operators]
             /\ Extends(Mirror(config).operators, Mirror(before).operators)
       /\ last.op = "add_additional_images" =>
             /\ config = [before EXCEPT !.spec.mirror.additionalImages =
                                            Mirror(config).additionalImages]
             /\ Extends(Mirror(config).additionalImages,
                        Mirror(before).additionalImages)
       /\ last.op = "add_helm_charts" =>
             config = [before EXCEPT !.spec.mirror.helm = Mirror(config).helm]
       /\ last.op = "set_kubevirt_container" =>
             /\ config = [before EXCEPT !.spec.mirror.platform =
                                            Mirror(config).platform]
             /\ Del(Mirror(config).platform, "kubeVirtContainer")
                  = Del(Mirror(before).platform, "kubeVirtContainer")

\* add_additional_images added images to a document that had an operator
\* group, which is still there.
C28_Witness ==
    /\ last.op = "add_additional_images"
    /\ Mirror(config).additionalImages # Mirror(last.before).additionalImages
    /\ Mirror(config).operators # <<>>

C11_NewestChannelIsDefault ==
    last.op = "add_operators(newest_channel)" =>
        /\ last.raised = ""
        /\ Len(OperatorGroups) > 0
        /\ \A i \in 1..Len(LastGroup.packages) :
              LET pkg == LastGroup.packages[i]
              IN pkg.name \in DOMAIN last.kwargs.newest_channel =>
                    /\ "defaultChannel" \in DOMAIN pkg
                    /\ pkg.defaultChannel = last.kwargs.newest_channel[pkg.name]

\* The value of a key of a loaded mapping.
YGet(node, key) ==
    LET i == CHOOSE i \in 1..Len(node.v) : node.v[i].k = YStr(Chars(key))
    IN node.v[i].n

\* What the test reads back: the body of the text, without the comment lines.
Loaded(result) == SafeLoad(NonCommentLines(YamlText(result)))

\* C12: parsing the non-comment lines of generate_yaml's output gives the
\* document's root fields and mirror section back with every value as it was
\* added: each platform channel with its name and bounds, each catalog group
\* with its packages, each additional image name in order, and each helm
\* chart under its repository key.
C12_RoundTrip ==
    last.op = "generate_yaml" =>
        LET loaded == Loaded(last.result)
            mirror == config.spec.mirror
        IN /\ loaded = BodyNode(last.result.body, last.result.keys)
           /\ YGet(loaded, "mirror") = MirrorNode(mirror)
           /\ YGet(YGet(YGet(loaded, "mirror"), "platform"), "channels")
                = YSeq([i \in 1..Len(mirror.platform.channels) |->
                          PlatformChannelNode(mirror.platform.channels[i])])
           /\ YGet(YGet(loaded, "mirror"), "operators")
                = YSeq([i \in 1..Len(mirror.operators) |->
                          OperatorGroupNode(mirror.operators[i])])
           /\ LET images == YGet(YGet(loaded, "mirror"), "additionalImages").v
              IN /\ Len(images) = Len(mirror.additionalImages)
                 /\ \A i \in 1..Len(images) :
                       YGet(images[i], "name")
                         = YStr(Chars(mirror.additionalImages[i].name))
           /\ LET helm == YGet(YGet(loaded, "mirror"), "helm").v
              IN /\ {helm[i].k : i \in 1..Len(helm)}
                      = {YStr(k) : k \in DOMAIN mirror.helm}
                 /\ \A i \in 1..Len(helm) :
                       helm[i].n = YSeq([j \in 1..Len(mirror.helm[helm[i].k.v]) |->
                                          ChartNode(mirror.helm[helm[i].k.v][j])])

\* A document with an image and with a chart whose version reads as a number
\* has been written.
C12_Witness ==
    /\ last.op = "generate_yaml"
    /\ Len(config.spec.mirror.additionalImages) > 0
    /\ \E k \in DOMAIN config.spec.mirror.helm :
          \E i \in 1..Len(config.spec.mirror.helm[k]) :
              config.spec.mirror.helm[k][i].version = "1.0"

\* The keys written at one indentation outside sequence items, in the order
\* of their lines.
KeysAt(text, indent) ==
    LET ls == SelectSeq(text, LAMBDA line :
                  /\ "comment" \notin DOMAIN line
                  /\ line.indent = indent
                  /\ ~line.dash
                  /\ line.key # <<>>)
    IN [i \in 1..Len(ls) |-> ls[i].key[1].text]

----------------------------------------------------------------------------
(* Claims about the operators cache *)

\* What one refresh of the catalog produces when it runs alone and no tool
\* fails.
SingleRefreshOutput ==
    ParseTables(Concat(BundleRows(CatalogDocs)),
                Concat(ChannelRows(CatalogDocs))).operators

\* Worker w runs alone.
Alone(w) == active = {w}

\* C4: when a lookup missed and the pipeline it started has completed with
\* success, the snapshot exists under the key of the lookup and a lookup of
\* that key made now is a hit that returns exactly the records the pipeline
\* produced; a hit runs no external tool.
C4_RefreshThenHit ==
    \A w \in Workers :
        /\ (Alone(w) /\ pc[w] = "refreshed") =>
              /\ LookupPath(w) \in DOMAIN fs
              /\ LoadOperatorsFromFile(fs, req[w].catalog, VersionKeyOf(w))
                    = ListResult(operator_output[w])
        /\ (Alone(w) /\ pc[w] = "done" /\ resp[w].status = "success") =>
              toolsRun[w] = <<>>

\* C5: two concurrent refreshes of one key leave, when both have completed,
\* the snapshot that one refresh alone leaves, and every snapshot written
\* on the way holds the complete operator list.
C5_ConcurrentRefreshesAgree ==
    (active = Workers /\ ~toolsMayFail) =>
        /\ (\A w \in Workers : pc[w] = "refreshed") =>
              fs[StaticFilePath("w1")]
                 = JsonFile(DumpSnapshot(SingleRefreshOutput, SnapshotTime))
        /\ \A w \in Workers :
              (StaticFilePath(w) \in DOMAIN fs
                 /\ fs[StaticFilePath(w)].kind = "json") =>
                 LoadOperatorsFromFile(fs, req[w].catalog,
                                       RefreshVersion(req[w].catalog, VersionKeyOf(w)))
                    = ListResult(SingleRefreshOutput)

\* The positions of refresh_ocp_operators after its render block.
AfterRenderBlock ==
    {"render", "bundle", "bundleRun", "channel", "channelRun", "parse", "dump",
     "write", "refreshed"}

\* C30: every refresh runs opm render for its request, whatever earlier
\* refreshes of the key did and left, and the records of a refresh that
\* completes are those of the catalog rendered.
C30_EveryRefreshRenders ==
    \A w \in Workers :
        /\ pc[w] \in AfterRenderBlock =>
              \E i \in 1..Len(toolsRun[w]) : toolsRun[w][i] = "opm"
        /\ pc[w] = "refreshed" => operator_output[w] = SingleRefreshOutput

\* C33: a lookup that missed and whose pipeline completed with success,
\* with no other request under way, answers with success and the records of
\* the pipeline, and the snapshot is written when it answers.
C33_MissAnswersWithPipelineResult ==
    [][\A w \in Workers :
          (Alone(w) /\ pc[w] = "refreshed" /\ pc'[w] = "done") =>
              /\ resp'[w].status = "success"
              /\ "operators" \in DOMAIN resp'[w]
              /\ resp'[w].operators = operator_output[w]
              /\ StaticFilePath(w) \in DOMAIN fs
              /\ fs[StaticFilePath(w)].kind = "json"]_vars

\* The components of a path: what its separators part.
PathComponents(path) == Split(path, "/")

\* C40: the cache file path derived from a catalog reference and a version
\* string names a file directly inside the data directory: the data
\* directory and one file name, no further separator, no '..' component.
C40_PathDirectlyInDataDir ==
    \A w \in Workers :
        "path" \in DOMAIN resp[w] =>
            /\ Len(PathComponents(resp[w].path)) = 2
            /\ PathComponents(resp[w].path)[1] = DataDir
            /\ \A i \in 1..Len(PathComponents(resp[w].path)) :
                   PathComponents(resp[w].path)[i] # <<".", ".">>

\* C31: for the one catalog and OCP minor version of the requests, with the
\* version given as 4.16, as the patch version 4.16.3, or left to the
\* catalog's tag :v4.16, the lookup reads and the refresh writes the path
\* made of the catalog's last segment without its tag and of 4.16.
C31_OnePathPerMinorVersion ==
    \A w \in Workers :
        (pc[w] # "idle" /\ req[w].version # <<>>) =>
            /\ LookupPath(w) = OperatorsPath(CatalogIndex(RedHatIndex), Ocp416, <<>>)
            /\ StaticFilePath(w) = LookupPath(w)

----------------------------------------------------------------------------
(* The other caches of app.py: OCP versions, channels, channel releases    *)
(* and catalogs.  Each is one JSON file under data/, read by its lookup    *)
(* handlers and rewritten by its refresh, which runs oc-mirror.            *)

Letters ==
    {"a", "b", "c", "d", "e", "f", "g", "h", "i", "j", "k", "l", "m",
     "n", "o", "p", "q", "r", "s", "t", "u", "v", "w", "x", "y", "z",
     "A", "B", "C", "D", "E", "F", "G", "H", "I", "J", "K", "L", "M",
     "N", "O", "P", "Q", "R", "S", "T", "U", "V", "W", "X", "Y", "Z"}

\* s consists of one or more digits.
IsDigits(s) == s # <<>> /\ \A i \in 1..Len(s) : s[i] \in Digits

\* s.startswith(prefix).
StartsWith(s, prefix) ==
    Len(s) >= Len(prefix) /\ SubSeq(s, 1, Len(prefix)) = prefix

\* re.match(r'^\d+\.\d+$', s)
IsMajorMinor(s) ==
    LET parts == Split(s, ".")
    IN Len(parts) = 2 /\ IsDigits(parts[1]) /\ IsDigits(parts[2])

\* re.match(r'^[A-Za-z0-9\-]+\d+\.\d+$', s)
IsChannelName(s) ==
    LET parts == Split(s, ".")
    IN /\ Len(parts) = 2
       /\ IsDigits(parts[2])
       /\ Len(parts[1]) >= 2
       /\ \A i \in 1..Len(parts[1]) :
             parts[1][i] \in Letters \cup Digits \cup {"-"}
       /\ parts[1][Len(parts[1])] \in Digits

\* re.match(r'^[A-Z,a-z]*\-\d.\d+$', s): letters and commas, a hyphen, a
\* digit, any one character, digits.
IsChannelLine(s) ==
    \E h \in 1..Len(s) :
        /\ s[h] = "-"
        /\ \A i \in 1..(h - 1) : s[i] \in Letters \cup {","}
        /\ Len(s) >= h + 3
        /\ s[h + 1] \in Digits
        /\ s[h + 2] # "\n"
        /\ IsDigits(SubSeq(s, h + 3, Len(s)))

\* The major.minor key of a version string.
VersionKey(version) ==
    IF Contains(<<".">>, version)
    THEN Split(version, ".")[1] \o <<".">> \o Split(version, ".")[2]
    ELSE version

\* [line.strip() for line in stdout.strip().split('\n')]
StdoutLines(stdout) ==
    LET lines == Split(Strip(stdout), "\n")
    IN [i \in 1..Len(lines) |-> Strip(lines[i])]

\* list.sort(key=lambda x: tuple(map(int, x.split('.')))): a stable
\* insertion of each element after the elements that are not above it.
RECURSIVE InsertVersion(_, _)
InsertVersion(x, sorted) ==
    IF sorted = <<>> THEN <<x>>
    ELSE IF TupleLess(VersionTuple(x), VersionTuple(Head(sorted)))
         THEN <<x>> \o sorted
         ELSE <<Head(sorted)>> \o InsertVersion(x, Tail(sorted))

RECURSIVE SortVersions(_)
SortVersions(xs) ==
    IF xs = <<>> THEN <<>>
    ELSE InsertVersion(xs[Len(xs)], SortVersions(SubSeq(xs, 1, Len(xs) - 1)))

VersionsFile == <<"o", "c", "p", "-", "v", "e", "r", "s", "i", "o", "n", "s", ".", "j", "s", "o", "n">>
ChannelsFile == <<"o", "c", "p", "-", "c", "h", "a", "n", "n", "e", "l", "s", ".", "j", "s", "o", "n">>
ReleasesFile == <<"c", "h", "a", "n", "n", "e", "l", "-", "r", "e", "l", "e", "a", "s", "e", "s", ".", "j", "s", "o", "n">>
CatalogsPrefix == <<"c", "a", "t", "a", "l", "o", "g", "s", "-">>

VersionsPath == PathJoin(DataDir, VersionsFile)
ChannelsPath == PathJoin(DataDir, ChannelsFile)
ReleasesPath == PathJoin(DataDir, ReleasesFile)
CatalogsPath(version) == PathJoin(DataDir, CatalogsPrefix \o version \o DotJson)

OcMirror == <<"o", "c", "-", "m", "i", "r", "r", "o", "r">>

\* What oc-mirror prints when it exits 0.
ReleasesStdout ==
    <<"4", ".", "1", "7", "\n", "4", ".", "1", "6", "\n", "x", "\n">>
ChannelsStdout ==
    <<"C", "h", "a", "n", "n", "e", "l", "s", ":", "\n", "s", "t", "a",
      "b", "l", "e", "-", "4", ".", "1", "6", "\n">>
ChannelReleasesStdout ==
    <<"C", "h", "a", "n", "n", "e", "l", ":", " ", "s", "t", "a", "b", "l",
      "e", "-", "4", ".", "1", "6", "\n", "4", ".", "1", "6", ".", "0",
      "\n", "4", ".", "1", "6", ".", "1", "\n">>
\* The same listing under a line that is no header of the tool.
WarnedReleasesStdout ==
    <<"w", "a", "r", "n", "i", "n", "g", ":", " ", "s", "l", "o", "w", "\n">>
        \o ChannelReleasesStdout
\* What `oc-mirror list releases --channel` may print when it exits 0.
ChannelReleasesStdouts == {ChannelReleasesStdout, WarnedReleasesStdout}
CatalogsStdout ==
    <<"O", "p", "e", "n", "S", "h", "i", "f", "t", " ", "4", ".", "1", "6",
      ":", "\n", "r", "e", "g", "i", "s", "t", "r", "y", ".", "r", "e",
      "d", "h", "a", "t", ".", "i", "o", "/", "r", "e", "d", "h", "a", "t",
      "/", "r", "e", "d", "h", "a", "t", "-", "o", "p", "e", "r", "a", "t",
      "o", "r", "-", "i", "n", "d", "e", "x", ":", "v", "4", ".", "1", "6",
      "\n">>

\* json.dump of a list of strings.
DumpStrings(xs) == JArray([i \in 1..Len(xs) |-> JString(xs[i])])

\* json.dump of a dict of lists of strings.
DumpStringLists(d) == JObject([k \in DOMAIN d |-> DumpStrings(d[k])])

\* json.dump of refresh_versions.
DumpVersions(releases, now) ==
    JObject([releases |-> DumpStrings(releases),
             count |-> JNumber(Len(releases)),
             source |-> JString(OcMirror),
             timestamp |-> JString(now)])

\* json.dump of refresh_ocp_channels.
DumpChannels(channels, now) ==
    JObject([channels |-> DumpStringLists(channels),
             count |-> JNumber(Cardinality(DOMAIN channels)),
             source |-> JString(OcMirror),
             timestamp |-> JString(now)])

\* json.dump of refresh_ocp_releases.
DumpReleases(channel_releases, now) ==
    JObject([channel_releases |-> DumpStringLists(channel_releases),
             count |-> JNumber(Cardinality(DOMAIN channel_releases)),
             source |-> JString(OcMirror),
             timestamp |-> JString(now)])

\* json.dump of one discovered catalog.
DumpCatalog(c) ==
    JObject([name |-> JString(c.name), url |-> JString(c.url),
             description |-> JString(c.description),
             default |-> [j |-> "boolean", v |-> c.default]])

\* json.dump(discovered_catalogs).
DumpCatalogs(discovered_catalogs) ==
    JObject([k \in DOMAIN discovered_catalogs |->
        JArray([i \in 1..Len(discovered_catalogs[k]) |->
                   DumpCatalog(discovered_catalogs[k][i])])])

\* d.get(key, default) on a loaded JSON object.
JsonGet(value, key, default) ==
    IF key \in DOMAIN value THEN value[key] ELSE default

\* return_base_catalog_info's table.
BaseCatalogs ==
    <<[name |-> <<"R", "e", "d", " ", "H", "a", "t", " ", "O", "p", "e",
                 "r", "a", "t", "o", "r", "s">>,
       base_url |->
         <<"r", "e", "g", "i", "s", "t", "r", "y", ".", "r", "e", "d", "h",
           "a", "t", ".", "i", "o", "/", "r", "e", "d", "h", "a", "t", "/",
           "r", "e", "d", "h", "a", "t", "-", "o", "p", "e", "r", "a", "t",
           "o", "r", "-", "i", "n", "d", "e", "x">>,
       description |->
         <<"O", "f", "f", "i", "c", "i", "a", "l", " ", "R", "e", "d", " ",
           "H", "a", "t", " ", "c", "e", "r", "t", "i", "f", "i", "e", "d",
           " ", "o", "p", "e", "r", "a", "t", "o", "r", "s">>,
       default |-> TRUE],
      [name |-> <<"C", "o", "m", "m", "u", "n", "i", "t", "y", " ", "O",
                 "p", "e", "r", "a", "t", "o", "r", "s">>,
       base_url |->
         <<"r", "e", "g", "i", "s", "t", "r", "y", ".", "r", "e", "d", "h",
           "a", "t", ".", "i", "o", "/", "r", "e", "d", "h", "a", "t", "/",
           "c", "o", "m", "m", "u", "n", "i", "t", "y", "-", "o", "p", "e",
           "r", "a", "t", "o", "r", "-", "i", "n", "d", "e", "x">>,
       description |->
         <<"C", "o", "m", "m", "u", "n", "i", "t", "y", "-", "m", "a", "i",
           "n", "t", "a", "i", "n", "e", "d", " ", "o", "p", "e", "r", "a",
           "t", "o", "r", "s">>,
       default |-> FALSE],
      [name |-> <<"C", "e", "r", "t", "i", "f", "i", "e", "d", " ", "O",
                 "p", "e", "r", "a", "t", "o", "r", "s">>,
       base_url |->
         <<"r", "e", "g", "i", "s", "t", "r", "y", ".", "r", "e", "d", "h",
           "a", "t", ".", "i", "o", "/", "r", "e", "d", "h", "a", "t", "/",
           "c", "e", "r", "t", "i", "f", "i", "e", "d", "-", "o", "p", "e",
           "r", "a", "t", "o", "r", "-", "i", "n", "d", "e", "x">>,
       description |->
         <<"T", "h", "i", "r", "d", "-", "p", "a", "r", "t", "y", " ", "c",
           "e", "r", "t", "i", "f", "i", "e", "d", " ", "o", "p", "e", "r",
           "a", "t", "o", "r", "s">>,
       default |-> FALSE],
      [name |-> <<"R", "e", "d", " ", "H", "a", "t", " ", "M", "a", "r",
                 "k", "e", "t", "p", "l", "a", "c", "e">>,
       base_url |->
         <<"r", "e", "g", "i", "s", "t", "r", "y", ".", "r", "e", "d", "h",
           "a", "t", ".", "i", "o", "/", "r", "e", "d", "h", "a", "t", "/",
           "r", "e", "d", "h", "a", "t", "-", "m", "a", "r", "k", "e", "t",
           "p", "l", "a", "c", "e", "-", "i", "n", "d", "e", "x">>,
       description |->
         <<"C", "o", "m", "m", "e", "r", "c", "i", "a", "l", " ", "o", "p",
           "e", "r", "a", "t", "o", "r", "s", " ", "f", "r", "o", "m", " ",
           "R", "e", "d", " ", "H", "a", "t", " ", "M", "a", "r", "k", "e",
           "t", "p", "l", "a", "c", "e">>,
       default |-> FALSE]>>

\* return_base_catalog_info(catalog_url): [found, info].
ReturnBaseCatalogInfo(catalog_url) ==
    LET hits == {i \in 1..Len(BaseCatalogs) :
                    StartsWith(catalog_url, BaseCatalogs[i].base_url)}
    IN IF hits = {} THEN [found |-> FALSE]
       ELSE [found |-> TRUE,
             info |-> BaseCatalogs[CHOOSE i \in hits : \A k \in hits : i <= k]]

InvalidDescription == 
        <<"I", "n", "v", "a", "l", "i", "d", " ", "c", "a", "t", "a", "l",
          "o", "g", " ", "o", "r", " ", "D", "e", "p", "r", "e", "c", "a",
          "t", "e", "d", " ", "C", "a", "t", "a", "l", "o", "g">>

\* group(1) of re.match(r'^(.*?)(:v\d+\.\d+)?$', line): the line without a
\* :v<major>.<minor> at its end.
CatalogUrlOf(line) ==
    LET parts == Split(line, ":")
        tag == Last(parts)
    IN IF Len(parts) >= 2 /\ tag # <<>> /\ tag[1] = "v"
          /\ IsMajorMinor(Tail(tag))
       THEN SubSeq(line, 1, Len(line) - Len(tag) - 1)
       ELSE line

\* refresh_catalogs_for_version: the lines it reads a catalog from.
IsCatalogLine(line) ==
    /\ line # <<>>
    /\ ~StartsWith(line, <<"#">>)
    /\ ~StartsWith(line, <<"W", "A", "R", "N">>)
    /\ ~StartsWith(line, <<"I", "N", "F", "O">>)
    /\ ~StartsWith(line, 
        <<"A", "v", "a", "i", "l", "a", "b", "l", "e", " ", "O", "p", "e",
          "n", "S", "h", "i", "f", "t", " ", "O", "p", "e", "r", "a", "t",
          "o", "r", "H", "u", "b", " ", "c", "a", "t", "a", "l", "o", "g",
          "s">>)
    /\ ~(/\ StartsWith(line, <<"O", "p", "e", "n", "S", "h", "i", "f", "t", " ">>)
         /\ Len(line) >= 13
         /\ line[11] \in Digits /\ line[12] = "." /\ line[13] \in Digits)

\* The entries discovered in the lines of one version.
RECURSIVE DiscoveredEntries(_)
DiscoveredEntries(lines) ==
    IF lines = <<>> THEN <<>>
    ELSE LET line == Head(lines)
             catalog_url == CatalogUrlOf(line)
             base == ReturnBaseCatalogInfo(catalog_url)
             entry ==
                IF ~IsCatalogLine(line) THEN <<>>
                ELSE IF Contains(<<"I", "n", "v", "a", "l", "i", "d">>, line)
                THEN <<[name |-> catalog_url, url |-> catalog_url,
                        description |-> InvalidDescription,
                        default |-> FALSE]>>
                ELSE IF base.found
                THEN <<[name |-> base.info.name, url |-> catalog_url,
                        description |-> base.info.description,
                        default |-> base.info.default]>>
                ELSE <<>>
         IN entry \o DiscoveredEntries(Tail(lines))

\* refresh_ocp_releases: the lines it takes for releases.
IsReleaseLine(line) ==
    /\ line # <<>>
    /\ ~StartsWith(line, <<"A", "r", "c", "h", "i", "t", "e", "c", "t", "u", "r", "e">>)
    /\ ~StartsWith(line, <<"C", "h", "a", "n", "n", "e", "l", ":">>)
    /\ ~StartsWith(line, <<"L", "i", "s", "t", "i", "n", "g">>)
    /\ ~Contains(OcMirror, line)

\* datetime.now().isoformat() of a refresh.
RefreshTime == SnapshotTime

\* The value of the JSON file at path: [ok, value]; not ok when the file is
\* absent or json.load raises.
LoadJson(files, path) ==
    IF path \in DOMAIN files THEN JsonLoad(files[path]) ELSE [ok |-> FALSE]

\* refresh_versions(), oc-mirror exiting 0 or not: the files it leaves, and
\* what it returns: tuple when it is a (response, code) pair.
RefreshVersions(files, toolOk) ==
    IF ~toolOk
    THEN [fs |-> files, tuple |-> TRUE, code |-> 500, status |-> "error"]
    ELSE LET releases ==
                SortVersions(SelectSeq(StdoutLines(ReleasesStdout), IsMajorMinor))
         IN [fs |-> Put(files, VersionsPath,
                        JsonFile(DumpVersions(releases, RefreshTime))),
             tuple |-> FALSE, code |-> 200, status |-> "success",
             releases |-> releases]

\* refresh_ocp_channels(version) with a version.
RefreshOcpChannels(files, version, toolOk) ==
    IF ~toolOk
    THEN [fs |-> files, tuple |-> TRUE, code |-> 500, status |-> "error"]
    ELSE LET found == SelectSeq(StdoutLines(ChannelsStdout), IsChannelLine)
             channels == IF found = <<>> THEN EmptyDict
                         ELSE Put(EmptyDict, version, found)
             data == LoadJson(files, ChannelsPath)
             old_channels == IF data.ok
                             THEN JsonGet(data.value, "channels", EmptyDict)
                             ELSE EmptyDict
             merged == Put(old_channels, version, found)
         IN [fs |-> Put(files, ChannelsPath,
                        JsonFile(DumpChannels(merged, RefreshTime))),
             tuple |-> FALSE, code |-> 200, status |-> "success",
             channels |-> channels]

\* refresh_ocp_channels() with no version, as POST /api/channels/refresh
\* calls it: the versions are the releases of ocp-versions.json, and
\* static_file_path is that file's path from there on.
RefreshAllOcpChannels(files, toolOk) ==
    LET data == LoadJson(files, VersionsPath)
        releases == IF data.ok THEN JsonGet(data.value, "releases", <<>>)
                    ELSE <<>>
        version_list == SelectSeq(releases, IsMajorMinor)
    IN IF version_list = <<>>
       THEN [fs |-> files, tuple |-> TRUE, code |-> 400, status |-> "error"]
       ELSE IF ~toolOk
       THEN [fs |-> files, tuple |-> TRUE, code |-> 500, status |-> "error"]
       ELSE LET found == SelectSeq(StdoutLines(ChannelsStdout), IsChannelLine)
                listed == {version_list[i] : i \in 1..Len(version_list)}
                channels == IF found = <<>> THEN EmptyDict
                            ELSE [version \in listed |-> found]
                old_channels == JsonGet(data.value, "channels", EmptyDict)
                merged == [version \in listed |-> found] @@ old_channels
            IN [fs |-> Put(files, VersionsPath,
                           JsonFile(DumpChannels(merged, RefreshTime))),
                tuple |-> FALSE, code |-> 200, status |-> "success",
                channels |-> channels]

\* refresh_ocp_releases writing the lists it found and nothing of the old
\* snapshot.
RefreshOcpReleasesReplacing(files, version, channel, toolOk, stdout) ==
    IF ~toolOk
    THEN [fs |-> files, tuple |-> TRUE, code |-> 500, status |-> "error"]
    ELSE LET found == SelectSeq(StdoutLines(stdout), IsReleaseLine)
             channels_releases == IF found = <<>> THEN EmptyDict
                                  ELSE Put(EmptyDict, channel, found)
         IN [fs |-> Put(files, ReleasesPath,
                        JsonFile(DumpReleases(channels_releases, RefreshTime))),
             tuple |-> FALSE, code |-> 200, status |-> "success",
             channel_releases |-> channels_releases]

\* refresh_ocp_releases(version, channel) with both in their format.
RefreshOcpReleases(files, version, channel, toolOk, stdout) ==
    IF ~toolOk
    THEN [fs |-> files, tuple |-> TRUE, code |-> 500, status |-> "error"]
    ELSE LET found == SelectSeq(StdoutLines(stdout), IsReleaseLine)
             channels_releases == IF found = <<>> THEN EmptyDict
                                  ELSE Put(EmptyDict, channel, found)
             data == LoadJson(files, ReleasesPath)
             old_channels_releases ==
                 IF data.ok
                 THEN JsonGet(data.value, "channel_releases", EmptyDict)
                 ELSE EmptyDict
             merged == channels_releases @@ old_channels_releases
         IN [fs |-> Put(files, ReleasesPath,
                        JsonFile(DumpReleases(merged, RefreshTime))),
             tuple |-> FALSE, code |-> 200, status |-> "success",
             channel_releases |-> channels_releases]

\* refresh_catalogs_for_version(version) with a version.
RefreshCatalogsForVersion(files, version, toolOk) ==
    IF ~toolOk
    THEN [fs |-> files, tuple |-> TRUE, code |-> 500, status |-> "error"]
    ELSE LET entries == DiscoveredEntries(StdoutLines(CatalogsStdout))
             discovered_catalogs ==
                 IF entries = <<>> THEN EmptyDict
                 ELSE Put(EmptyDict, VersionKey(version), entries)
         IN [fs |-> Put(files, CatalogsPath(version),
                        JsonFile(DumpCatalogs(discovered_catalogs))),
             tuple |-> FALSE, code |-> 200, status |-> "success",
             catalogs |-> discovered_catalogs]

----------------------------------------------------------------------------
(* The lookup handlers of the caches, each with the refresh it calls on a  *)
(* miss.  One worker serves them, one request at a time.                   *)

\* A response: its HTTP code, its status and source fields, whether its
\* message carries the text of a JSON parse error, and its payload.
Reply(code, status, source, data) ==
    [code |-> code, status |-> status, source |-> source,
     parseError |-> FALSE, data |-> data]

\* The 500 of an except branch that puts str(e) of a failed json.load into
\* the message.
ParseErrorReply ==
    [code |-> 500, status |-> "error", source |-> "exception",
     parseError |-> TRUE, data |-> None]

\* The 500 of an except branch reporting another exception.
ExceptionReply == Reply(500, "error", "exception", None)

\* Flask's 500 for an exception no handler code catches.
UnhandledReply == Reply(500, "error", "unhandled", None)

\* The exit statuses oc-mirror can have in this run: TRUE is 0.
ToolOutcomes == IF toolsMayFail THEN {TRUE, FALSE} ELSE {TRUE}

\* The versions and the channel the lookups are made with.
LookupVersions == {Ocp416, <<"4", ".", "1", "6", ".", "3">>}
LookupChannels == {Stable416, Fast416}

\* A cache file as the lookups can find it: absent, opened for writing by a
\* refresh that has not yet dumped into it, or complete.
FileStates == {"absent", "torn", "complete"}

\* The data directory with the five cache files in the given states.
WithFile(files, path, state, complete) ==
    IF state = "absent" THEN files
    ELSE IF state = "torn" THEN Put(files, path, EmptyFile)
    ELSE Put(files, path, complete)

CompleteVersions == JsonFile(DumpVersions(<<Ocp416, Ocp417>>, SnapshotTime))
CompleteChannels ==
    JsonFile(DumpChannels(Put(EmptyDict, Ocp416, <<Stable416>>), SnapshotTime))
CompleteReleases ==
    JsonFile(DumpReleases(Put(EmptyDict, Stable416, <<V4_16_0>>), SnapshotTime))
CompleteCatalogs ==
    JsonFile(DumpCatalogs(Put(EmptyDict, Ocp416,
        <<[name |-> BaseCatalogs[1].name, url |-> RedHatIndex,
           description |-> BaseCatalogs[1].description,
           default |-> TRUE]>>)))
CompleteOperators == JsonFile(DumpSnapshot(SingleRefreshOutput, SnapshotTime))

\* An operators file that holds a JSON object without the operators field,
\* and the states the lookups can find the operators file in.
WithoutOperators == JsonFile(JObject([timestamp |-> JString(SnapshotTime)]))
OperatorsFileStates == FileStates \cup {"without operators"}

\* The request of the operators lookups of this specification.
LookupRequest == [catalog |-> RedHatIndex, version |-> Ocp416]

LookupInit ==
    /\ EnrichIdle
    /\ ValidateIdle
    /\ GenerateIdle
    /\ ToolIdle
    /\ \E v, k \in FileStates, o \in OperatorsFileStates :
          fs = WithFile(WithFile(WithFile(WithFile(WithFile(EmptyDict,
                  VersionsPath, v, CompleteVersions),
                  ChannelsPath, "complete", CompleteChannels),
                  ReleasesPath, "complete", CompleteReleases),
                  CatalogsPath(Ocp416), k, CompleteCatalogs),
                  OperatorsPath(CatalogIndex(LookupRequest.catalog),
                                LookupRequest.version, <<>>),
                  o, IF o = "without operators" THEN WithoutOperators
                     ELSE CompleteOperators)
    /\ active = {"w1"}
    /\ toolsMayFail \in BOOLEAN
    /\ req = [w \in Workers |-> LookupRequest]
    /\ pc = [w \in Workers |-> "idle"]
    /\ operator_output = [w \in Workers |-> <<>>]
    /\ toolsRun = [w \in Workers |-> <<>>]
    /\ resp = [w \in Workers |-> [status |-> "none"]]
    /\ BuilderIdle
    /\ TagIdle

\* Worker w takes its next request.
Ready(w) == w \in active /\ pc[w] \in {"idle", "done"}

\* Worker w answers: the files it leaves, the tools it ran, the response.
Answer(w, files, tools, reply) ==
    /\ fs' = files
    /\ toolsRun' = [toolsRun EXCEPT ![w] = tools]
    /\ resp' = [resp EXCEPT ![w] = reply]
    /\ pc' = [pc EXCEPT ![w] = "done"]
    /\ UNCHANGED <<active, toolsMayFail, req, operator_output>>
    /\ UNCHANGED nonCacheVars

\* GET /api/ocp-versions: get_ocp_versions_static.
GetOcpVersionsStatic(w) ==
    /\ Ready(w)
    /\ IF VersionsPath \in DOMAIN fs
       THEN LET data == JsonLoad(fs[VersionsPath])
            IN IF data.ok
               THEN Answer(w, fs, <<>>,
                       Reply(200, "success",
                             JsonGet(data.value, "source", "static_file"),
                             JsonGet(data.value, "releases", <<>>)))
               ELSE Answer(w, fs, <<>>, ParseErrorReply)
       ELSE Answer(w, fs, <<>>, Reply(404, "error", "none", None))

\* GET /api/versions/: get_versions.  After refresh_versions returned, the
\* handler reads .json of a (response, code) pair or the name channel, which
\* nothing defines: either exception reaches Flask.
GetVersions(w) ==
    /\ Ready(w)
    /\ LET data == LoadJson(fs, VersionsPath)
           releases == IF data.ok THEN JsonGet(data.value, "releases", <<>>)
                       ELSE <<>>
       IN IF releases # <<>>
          THEN Answer(w, fs, <<>>, Reply(200, "success", "static_file", releases))
          ELSE \E toolOk \in ToolOutcomes :
                  Answer(w, RefreshVersions(fs, toolOk).fs, <<"oc-mirror">>,
                         UnhandledReply)

\* GET /api/channels/<version>: get_ocp_channels.
GetOcpChannels(w) ==
    /\ Ready(w)
    /\ \E version \in LookupVersions :
        IF ~IsMajorMinor(version)
        THEN Answer(w, fs, <<>>, Reply(400, "error", "none", None))
        ELSE LET data == LoadJson(fs, ChannelsPath)
                 channels == IF data.ok
                             THEN JsonGet(data.value, "channels", EmptyDict)
                             ELSE EmptyDict
                 channel_data == JsonGet(channels, version, <<>>)
             IN IF channel_data # <<>>
                THEN Answer(w, fs, <<>>,
                            Reply(200, "success", "static_file", channel_data))
                ELSE \E toolOk \in ToolOutcomes :
                        LET r == RefreshOcpChannels(fs, version, toolOk)
                        IN Answer(w, r.fs, <<"oc-mirror">>,
                              IF r.tuple THEN ExceptionReply
                              ELSE IF version \in DOMAIN r.channels
                              THEN Reply(200, "success", "oc-mirror",
                                         r.channels[version])
                              ELSE Reply(404, "error", "none", None))

\* POST /api/channels/refresh: refresh_ocp_channels.
RefreshOcpChannelsRoute(w) ==
    /\ Ready(w)
    /\ \E toolOk \in ToolOutcomes :
          LET r == RefreshAllOcpChannels(fs, toolOk)
          IN Answer(w, r.fs,
                    IF r.code = 400 THEN <<>> ELSE <<"oc-mirror">>,
                    IF r.tuple THEN Reply(r.code, "error", "none", None)
                    ELSE Reply(200, "success", "oc-mirror", r.channels))

\* GET /api/releases/<version>/<channel>: get_ocp_releases.
GetOcpReleasesOf(w, version, channel) ==
    IF ~IsMajorMinor(version) \/ ~IsChannelName(channel)
    THEN Answer(w, fs, <<>>, Reply(400, "error", "none", None))
    ELSE LET data == LoadJson(fs, ReleasesPath)
             channel_releases ==
                 IF data.ok
                 THEN JsonGet(JsonGet(data.value, "channel_releases", EmptyDict),
                              channel, <<>>)
                 ELSE <<>>
         IN IF channel_releases # <<>>
            THEN Answer(w, fs, <<>>,
                        Reply(200, "success", "static_file", channel_releases))
            ELSE \E toolOk \in ToolOutcomes, stdout \in ChannelReleasesStdouts :
                    LET r == RefreshOcpReleases(fs, version, channel, toolOk,
                                                stdout)
                    IN Answer(w, r.fs, <<"oc-mirror">>,
                          IF r.tuple THEN ExceptionReply
                          ELSE Reply(200, "success", "none",
                                     r.channel_releases))

GetOcpReleases(w) ==
    /\ Ready(w)
    /\ \E version \in LookupVersions, channel \in LookupChannels :
          GetOcpReleasesOf(w, version, channel)

\* A response of the catalog handlers with its 'version': version.
WithVersion(reply, version) == Put(reply, "version", version)

\* load_catalogs_from_file(version_key).
LoadCatalogsFromFile(files, version_key) ==
    LET data == LoadJson(files, CatalogsPath(version_key))
    IN IF data.ok THEN [isNone |-> FALSE, value |-> data.value]
       ELSE NoneResult

\* GET /api/operators/catalogs/<version>/list: list_catalogs_for_version.
ListCatalogsForVersion(w) ==
    /\ Ready(w)
    /\ \E version \in LookupVersions :
        LET cached_catalogs == LoadCatalogsFromFile(fs, version)
        IN IF ~cached_catalogs.isNone
           THEN Answer(w, fs, <<>>,
                       WithVersion(Reply(200, "success", "static_file",
                                         cached_catalogs.value), version))
           ELSE \E toolOk \in ToolOutcomes :
                   LET r == RefreshCatalogsForVersion(fs, version, toolOk)
                   IN Answer(w, r.fs, <<"oc-mirror">>,
                         IF r.tuple THEN Reply(500, "error", "none", None)
                         ELSE WithVersion(Reply(200, "success", "oc-mirror",
                                                r.catalogs), version))

\* GET /api/operators/catalogs/<version>: get_operator_catalogs.  It reads
\* .json of what refresh_catalogs_for_version returned: of a (response,
\* code) pair that raises, and a success response has no "data".
GetOperatorCatalogs(w) ==
    /\ Ready(w)
    /\ \E version \in LookupVersions :
        LET data == LoadJson(fs, CatalogsPath(VersionKey(version)))
        IN IF data.ok
           THEN Answer(w, fs, <<>>,
                       WithVersion(Reply(200, "success", "static_file",
                                         data.value), version))
           ELSE \E toolOk \in ToolOutcomes :
                   LET r == RefreshCatalogsForVersion(fs, version, toolOk)
                   IN Answer(w, r.fs, <<"oc-mirror">>,
                         IF r.tuple THEN UnhandledReply
                         ELSE Reply(404, "error", "none", None))

\* The lookups of versions, catalogs and operators. The pipeline an
\* operators miss starts is followed in CacheSpec.
LookupNext ==
    \/ \E w \in Workers : GetOcpVersionsStatic(w)
    \/ \E w \in Workers : GetVersions(w)
    \/ \E w \in Workers : ListCatalogsForVersion(w)
    \/ \E w \in Workers : GetOperatorCatalogs(w)
    \/ \E w \in Workers : Lookup(w)

LookupSpec == LookupInit /\ [][LookupNext]_vars

\* The channels and releases handlers, over the three files they read and
\* write.
ReleaseInit ==
    /\ EnrichIdle
    /\ ValidateIdle
    /\ GenerateIdle
    /\ ToolIdle
    /\ \E v, c, r \in FileStates :
          fs = WithFile(WithFile(WithFile(EmptyDict,
                  VersionsPath, v, CompleteVersions),
                  ChannelsPath, c, CompleteChannels),
                  ReleasesPath, r, CompleteReleases)
    /\ active = {"w1"}
    /\ toolsMayFail \in BOOLEAN
    /\ req = [w \in Workers |-> LookupRequest]
    /\ pc = [w \in Workers |-> "idle"]
    /\ operator_output = [w \in Workers |-> <<>>]
    /\ toolsRun = [w \in Workers |-> <<>>]
    /\ resp = [w \in Workers |-> [status |-> "none"]]
    /\ BuilderIdle
    /\ TagIdle

ReleaseNext ==
    \/ \E w \in Workers : GetOcpChannels(w)
    \/ \E w \in Workers : RefreshOcpChannelsRoute(w)
    \/ \E w \in Workers : GetOcpReleases(w)

ReleaseSpec == ReleaseInit /\ [][ReleaseNext]_vars

----------------------------------------------------------------------------
(* Claims about the lookups and the refreshes they call *)

\* C6: no lookup answers with a parse error: a cache file that does not
\* parse is a miss.
C6_UnparsableIsMiss ==
    \A w \in Workers :
        "parseError" \in DOMAIN resp[w] => ~resp[w].parseError

\* C34: after a catalog discovery for a version succeeded, the catalogs
\* snapshot is the file of the version's major.minor key and holds the
\* catalogs discovered, so that both catalog lookups of the version find it.
C34_DiscoveryStoredUnderMinorKey ==
    \A w \in Workers :
        (pc[w] = "done" /\ "version" \in DOMAIN resp[w]
            /\ resp[w].source = "oc-mirror") =>
            LET stored == LoadJson(fs, CatalogsPath(VersionKey(resp[w].version)))
            IN /\ stored.ok
               /\ stored.value = resp[w].data
               /\ ~LoadCatalogsFromFile(fs, resp[w].version).isNone

\* A release as the snapshot is meant to list it: digits.digits or
\* digits.digits.digits.
MatchesReleasePattern(entry) ==
    LET parts == Split(entry, ".")
    IN /\ Len(parts) \in {2, 3}
       /\ \A i \in 1..Len(parts) : IsDigits(parts[i])

\* The channel lists of the channel-releases snapshot among files.
ChannelReleasesOf(files) ==
    LET data == LoadJson(files, ReleasesPath)
    IN IF data.ok THEN JsonGet(data.value, "channel_releases", EmptyDict)
       ELSE EmptyDict

\* The channel lists of the channel-releases snapshot on disk.
StoredChannelReleases == ChannelReleasesOf(fs)

\* C35: every entry of a channel's release list in the channel-releases
\* snapshot matches the release pattern; every other line the list tool
\* printed (a header, a warning, a blank line) was discarded.
C35_StoredReleasesMatchPattern ==
    \A channel \in DOMAIN StoredChannelReleases :
        \A i \in 1..Len(StoredChannelReleases[channel]) :
            MatchesReleasePattern(StoredChannelReleases[channel][i])

\* The content of ocp-versions.json, or that there is no such file.
VersionsFileOf(files) ==
    IF VersionsPath \in DOMAIN files THEN files[VersionsPath]
    ELSE [kind |-> "absent"]

\* C36: a channels refresh, for one given version or for all known
\* versions, leaves ocp-versions.json with the content it had.
C36_ChannelsRefreshKeepsVersionsFile ==
    [][(\E w \in Workers : GetOcpChannels(w) \/ RefreshOcpChannelsRoute(w)) =>
          VersionsFileOf(fs') = VersionsFileOf(fs)]_vars

\* The content of channel-releases.json, or that there is no such file.
ReleasesFileOf(files) ==
    IF ReleasesPath \in DOMAIN files THEN files[ReleasesPath]
    ELSE [kind |-> "absent"]

\* The lists of the channels other than channel are in after what they were
\* in before.
OtherChannelsKept(before, after, channel) ==
    /\ DOMAIN after \ {channel} = DOMAIN before \ {channel}
    /\ \A c \in DOMAIN before \ {channel} : after[c] = before[c]

\* C37: a request that refreshes the releases of a channel changes no other
\* channel's list in the channel-releases snapshot, and leaves the snapshot
\* file as it was when it does not answer 200.
C37_ReleasesRefreshKeepsOtherChannels ==
    [][\A w \in Workers, channel \in LookupChannels :
          (Ready(w) /\ \E version \in LookupVersions :
                          GetOcpReleasesOf(w, version, channel)) =>
              /\ OtherChannelsKept(ChannelReleasesOf(fs), ChannelReleasesOf(fs'),
                                   channel)
              /\ resp'[w].code # 200 =>
                     ReleasesFileOf(fs') = ReleasesFileOf(fs)]_vars

\* The releases of fast-4.16 were refreshed into a snapshot that held the
\* list of stable-4.16, which is still there.
C37_Witness ==
    /\ Fast416 \in DOMAIN StoredChannelReleases
    /\ Stable416 \in DOMAIN StoredChannelReleases
    /\ StoredChannelReleases[Stable416] = <<V4_16_0>>

\* C29: an operators lookup answers from the cache only when the file at the
\* key's path parses as JSON and holds an operators field; a file that
\* parses and holds none is a miss.
C29_HitNeedsOperatorsField ==
    \A w \in Workers :
        (pc[w] = "done" /\ resp[w].status = "success"
            /\ "operators" \in DOMAIN resp[w]) =>
            /\ LookupPath(w) \in DOMAIN fs
            /\ JsonLoad(fs[LookupPath(w)]).ok
            /\ "operators" \in DOMAIN JsonLoad(fs[LookupPath(w)]).value

-----------------------------------------------------------------------------
(* The external tools as subprocesses: each subprocess.run of app.py with   *)
(* its command line, its timeout and its check and capture settings, and    *)
(* what the function that made it does when the tool exits 0, exits         *)
(* non-zero, or never exits.  One worker runs one function.                 *)

\* How an invocation ends, decided by the tool and the registry it talks to.
Fates == {"exit 0", "exit 1", "never exits"}

\* What the tool writes to stderr before a non-zero exit.
ToolStderr == "unauthorized: access to the requested resource is not authorized"

\* subprocess.run(cmd, timeout=..., check=..., capture_output=...); the
\* timeout is None or one number of seconds.
Invocation(tool, args, target, timeout, check, capture, fate) ==
    [tool |-> tool, args |-> args, target |-> target, timeout |-> timeout,
     check |-> check, capture |-> capture, fate |-> fate]

\* What subprocess.run does in the caller: it returns a CompletedProcess,
\* raises CalledProcessError or TimeoutExpired, or does not return.
RunResult(inv) ==
    CASE inv.fate = "exit 0" -> "completed 0"
      [] inv.fate = "exit 1" ->
            IF inv.check THEN "CalledProcessError" ELSE "completed 1"
      [] OTHER ->
            IF inv.timeout # None THEN "TimeoutExpired" ELSE "blocked"

\* A function returned a response, or raised.
Returned(code, status, stderr, substituted) ==
    [kind |-> "return", code |-> code, status |-> status, stderr |-> stderr,
     substituted |-> substituted]
Raised(type, stderr, timeout) ==
    [kind |-> "raise", type |-> type, stderr |-> stderr, timeout |-> timeout]

\* The catalogs, versions and operator names the functions are called with.
ToolCatalogs == {RedHatIndex, RedHatIndex416}
ToolVersions == {Ocp416, <<"4", ".", "1", "6", ".", "3">>, <<"4">>}
ToolOperators == {"cluster-logging", "odf-operator"}

\* The three files refresh_ocp_operators writes for its catalog and version.
StageFiles == {"index", "data", "channel"}

ToolInit ==
    /\ EnrichIdle
    /\ ValidateIdle
    /\ GenerateIdle
    /\ handler = [op |-> "none"]
    /\ phase = "idle"
    /\ runs = <<>>
    /\ outcome = [kind |-> "none"]
    /\ present \in SUBSET StageFiles
    /\ BuilderIdle
    /\ TagIdle
    /\ CacheIdle

\* The worker enters subprocess.run.
Run(inv) ==
    /\ runs' = Append(runs, inv)
    /\ phase' = "waiting"

\* The invocation the worker waits in.
Current == runs[Len(runs)]

\* The function op is waiting in subprocess.run, which comes back.
Back(op) ==
    /\ handler.op = op
    /\ phase = "waiting"
    /\ RunResult(Current) # "blocked"

\* get_operators_from_opm(catalog_url, version_key) up to subprocess.run.
GetOperatorsFromOpm ==
    /\ phase = "idle"
    /\ \E catalog_url \in {RedHatIndex}, version_key \in {Ocp416, Ocp417},
          fate \in Fates :
          /\ handler' = [op |-> "get_operators_from_opm",
                         version_key |-> version_key]
          /\ Run(Invocation("opm", <<"render", "--skip-tls">>,
                            catalog_url \o TagPrefix \o version_key,
                            <<180>>, FALSE, TRUE, fate))
    /\ UNCHANGED <<outcome, present>>
    /\ UNCHANGED nonToolVars

\* get_operators_from_opm after subprocess.run: the sorted names, or an
\* Exception whose text holds the tool's stderr or the text of the
\* TimeoutExpired it wraps.
GetOperatorsFromOpmEnds ==
    /\ Back("get_operators_from_opm")
    /\ outcome' =
          CASE RunResult(Current) = "completed 0" ->
                  Returned(None, "operators", None, FALSE)
            [] RunResult(Current) = "completed 1" ->
                  Raised("Exception", ToolStderr, FALSE)
            [] OTHER -> Raised("Exception", None, FALSE)
    /\ phase' = "returned"
    /\ UNCHANGED <<handler, runs, present>>
    /\ UNCHANGED nonToolVars

\* refresh_ocp_operators(catalog, version) with a catalog: its three stages
\* are ahead.
RefreshOcpOperatorsCall ==
    /\ phase = "idle"
    /\ \E catalog \in ToolCatalogs, version \in {Ocp416, Ocp417} :
          handler' = [op |-> "refresh_ocp_operators", catalog |-> catalog,
                      version |-> version, stage |-> "index"]
    /\ phase' = "running"
    /\ UNCHANGED <<runs, outcome, present>>
    /\ UNCHANGED nonToolVars

\* The command of a stage: opm render into the index file, or one of the
\* two jq passes over it.
StageInvocation(stage, catalog, fate) ==
    IF stage = "index"
    THEN Invocation("opm", <<"render", "--skip-tls-verify", "--output", "json">>,
                    catalog, None, TRUE, FALSE, fate)
    ELSE Invocation("jq", <<"-r", stage>>, None, None, TRUE, FALSE, fate)

NextStage(stage) ==
    CASE stage = "index" -> "data"
      [] stage = "data" -> "channel"
      [] stage = "channel" -> "parse"

\* "if not os.path.exists(<the stage's file>)": the file is opened for
\* writing and the tool started; a file that exists is kept.
RefreshStage ==
    /\ handler.op = "refresh_ocp_operators"
    /\ phase = "running"
    /\ handler.stage \in StageFiles
    /\ IF handler.stage \in present
       THEN /\ handler' = [handler EXCEPT !.stage = NextStage(@)]
            /\ UNCHANGED <<runs, phase, present>>
       ELSE /\ present' = present \cup {handler.stage}
            /\ \E fate \in Fates :
                  Run(StageInvocation(handler.stage, handler.catalog, fate))
            /\ UNCHANGED handler
    /\ UNCHANGED outcome
    /\ UNCHANGED nonToolVars

\* A stage's tool exits: the next stage, or the 500 response of the
\* CalledProcessError branch, whose message is str(e).
RefreshStageEnds ==
    /\ Back("refresh_ocp_operators")
    /\ IF RunResult(Current) = "completed 0"
       THEN /\ handler' = [handler EXCEPT !.stage = NextStage(@)]
            /\ phase' = "running"
            /\ UNCHANGED outcome
       ELSE /\ outcome' = Returned(500, "error", None, FALSE)
            /\ phase' = "returned"
            /\ UNCHANGED handler
    /\ UNCHANGED <<runs, present>>
    /\ UNCHANGED nonToolVars

\* The tables are parsed, the snapshot written and the records returned, or
\* the parsing raises and the 500 response is returned: the tables' contents
\* decide, which CacheSpec has and this specification leaves open.
RefreshOcpOperatorsReturns ==
    /\ handler.op = "refresh_ocp_operators"
    /\ phase = "running"
    /\ handler.stage = "parse"
    /\ \E parsed \in BOOLEAN :
          outcome' = IF parsed THEN Returned(200, "success", None, FALSE)
                     ELSE Returned(500, "error", None, FALSE)
    /\ phase' = "returned"
    /\ UNCHANGED <<handler, runs, present>>
    /\ UNCHANGED nonToolVars

\* refresh_versions() up to subprocess.run.
RefreshVersionsCall ==
    /\ phase = "idle"
    /\ handler' = [op |-> "refresh_versions"]
    /\ \E fate \in Fates :
          Run(Invocation("oc-mirror", <<"list", "releases">>, None,
                         <<30>>, FALSE, TRUE, fate))
    /\ UNCHANGED <<outcome, present>>
    /\ UNCHANGED nonToolVars

\* refresh_versions after subprocess.run.
RefreshVersionsEnds ==
    /\ Back("refresh_versions")
    /\ outcome' =
          CASE RunResult(Current) = "completed 0" ->
                  Returned(200, "success", None, FALSE)
            [] RunResult(Current) = "completed 1" ->
                  Returned(500, "error", ToolStderr, FALSE)
            [] OTHER -> Returned(500, "error", None, FALSE)
    /\ phase' = "returned"
    /\ UNCHANGED <<handler, runs, present>>
    /\ UNCHANGED nonToolVars

\* get_operator_channels: major.minor of the version, or the version when
\* it has no ".".
ChannelsVersionKey(version) ==
    IF Contains(<<".">>, version)
    THEN Split(version, ".")[1] \o <<".">> \o Split(version, ".")[2]
    ELSE version

\* get_operator_channels: the catalog with ":v<version_key>" unless it
\* holds ":v".
ChannelsCatalogUrl(catalog, version_key) ==
    IF Contains(TagPrefix, catalog) THEN catalog
    ELSE catalog \o TagPrefix \o version_key

\* get_operator_channels(operator_name) up to subprocess.run.
GetOperatorChannelsCall ==
    /\ phase = "idle"
    /\ \E operator_name \in ToolOperators, catalog \in ToolCatalogs,
          version \in ToolVersions, fate \in Fates :
          LET version_key == ChannelsVersionKey(version)
              catalog_url == ChannelsCatalogUrl(catalog, version_key)
          IN /\ handler' = [op |-> "get_operator_channels",
                            operator_name |-> operator_name]
             /\ Run(Invocation("oc-mirror",
                               <<"list", "operators", "--catalogs", "--version",
                                 operator_name>>,
                               <<catalog_url, version_key>>,
                               <<120>>, FALSE, TRUE, fate))
    /\ UNCHANGED <<outcome, present>>
    /\ UNCHANGED nonToolVars

\* get_operator_channels after subprocess.run: the channels found in the
\* output, the default channel after a non-zero exit, or the 504 of the
\* TimeoutExpired branch.
GetOperatorChannelsEnds ==
    /\ Back("get_operator_channels")
    /\ outcome' =
          CASE RunResult(Current) = "completed 0" ->
                  Returned(200, "success", None, FALSE)
            [] RunResult(Current) = "completed 1" ->
                  Returned(200, "success", None, TRUE)
            [] OTHER -> Returned(504, "error", None, FALSE)
    /\ phase' = "returned"
    /\ UNCHANGED <<handler, runs, present>>
    /\ UNCHANGED nonToolVars

\* refresh_catalogs_for_version(version): the discovery call.
DiscoverCatalogsCall ==
    /\ phase = "idle"
    /\ \E version \in ToolVersions, fate \in Fates :
          /\ handler' = [op |-> "refresh_catalogs_for_version"]
          /\ Run(Invocation("oc-mirror",
                            <<"list", "operators", "--catalogs", "--version=">>,
                            ChannelsVersionKey(version),
                            <<300>>, FALSE, TRUE, fate))
    /\ UNCHANGED <<outcome, present>>
    /\ UNCHANGED nonToolVars

\* The discovery after subprocess.run.
DiscoverCatalogsEnds ==
    /\ Back("refresh_catalogs_for_version")
    /\ outcome' =
          CASE RunResult(Current) = "completed 0" ->
                  Returned(200, "success", None, FALSE)
            [] RunResult(Current) = "completed 1" ->
                  Returned(500, "error", ToolStderr, FALSE)
            [] OTHER -> Returned(500, "error", None, FALSE)
    /\ phase' = "returned"
    /\ UNCHANGED <<handler, runs, present>>
    /\ UNCHANGED nonToolVars

ToolNext ==
    \/ GetOperatorsFromOpm
    \/ GetOperatorsFromOpmEnds
    \/ RefreshOcpOperatorsCall
    \/ RefreshStage
    \/ RefreshStageEnds
    \/ RefreshOcpOperatorsReturns
    \/ RefreshVersionsCall
    \/ RefreshVersionsEnds
    \/ GetOperatorChannelsCall
    \/ GetOperatorChannelsEnds
    \/ DiscoverCatalogsCall
    \/ DiscoverCatalogsEnds

ToolSpec == ToolInit /\ [][ToolNext]_vars

\* The worker is scheduled as long as it has a step to take.
ToolFairSpec == ToolSpec /\ WF_vars(ToolNext)

----------------------------------------------------------------------------
(* Claims about the subprocesses *)

\* The invocations of the render tool, in order.
RenderRuns == SelectSeq(runs, LAMBDA r : r.tool = "opm")

\* C14: a function that renders a catalog runs opm render once; when the
\* tool exited non-zero the function has raised a CatalogRenderError that
\* holds the tool's stderr, and when the tool did not exit in time it has
\* raised a CatalogRenderError marked as a timeout.
C14_RenderFailsOnceAsCatalogRenderError ==
    /\ Len(RenderRuns) <= 1
    /\ (phase = "returned" /\ RenderRuns # <<>>) =>
          LET render == RenderRuns[1]
          IN /\ render.fate = "exit 1" =>
                   /\ outcome.kind = "raise"
                   /\ outcome.type = "CatalogRenderError"
                   /\ outcome.stderr = ToolStderr
             /\ render.fate = "never exits" =>
                   /\ outcome.kind = "raise"
                   /\ outcome.type = "CatalogRenderError"
                   /\ outcome.timeout

\* s ends with suffix.
EndsWith(s, suffix) ==
    Len(s) >= Len(suffix)
        /\ SubSeq(s, Len(s) - Len(suffix) + 1, Len(s)) = suffix

\* The version the result of the function that renders is cached under.
CachedVersion ==
    IF handler.op = "get_operators_from_opm" THEN handler.version_key
    ELSE handler.version

\* C32: every opm render of get_operators_from_opm and of
\* refresh_ocp_operators is given a catalog reference that ends with the tag
\* ":v<version>" of the version the result is cached under.
C32_RenderedCatalogIsTagged ==
    \A i \in 1..Len(RenderRuns) :
        EndsWith(RenderRuns[i].target, TagPrefix \o CachedVersion)

\* C15: every function that has started a refresh or a listing returns,
\* whatever its tools do: each of its invocations has a timeout.
C15_EveryCallReturns ==
    [](phase \in {"running", "waiting"} => <>(phase = "returned"))

\* The switch constants.py is tested for: verify TLS unless told otherwise.
TLS_VERIFY == TRUE

TlsSkipFlags == {"--skip-tls", "--skip-tls-verify"}

HasTlsSkip(inv) == \E i \in 1..Len(inv.args) : inv.args[i] \in TlsSkipFlags

\* C16: a command line of the render tool holds a TLS-skip flag exactly when
\* TLS_VERIFY is false; with TLS_VERIFY true no render command holds one.
C16_TlsSkipFollowsSwitch ==
    \A i \in 1..Len(runs) :
        runs[i].tool = "opm" => (HasTlsSkip(runs[i]) <=> ~TLS_VERIFY)

\* C19: a function one of whose tools exited non-zero has raised or has
\* returned an error response, never a success response with data put in
\* the place of the tool's.
C19_ToolFailureIsError ==
    (phase = "returned" /\ \E i \in 1..Len(runs) : runs[i].fate = "exit 1") =>
        \/ outcome.kind = "raise"
        \/ outcome.kind = "return" /\ outcome.status = "error"
                                   /\ ~outcome.substituted

----------------------------------------------------------------------------
(* Serving POST /api/generate/preview: generate_preview, one builder call   *)
(* after the other on the ImageSetGenerator the request created, and        *)
(* POST /api/validate: validate_config.  Two requests are served, each on   *)
(* its own worker.                                                          *)

GenerateRequests == {"r1", "r2"}

\* data.get(key): None for a key the payload does not have.
Get(data, key) == IF key \in DOMAIN data THEN data[key] ELSE None

\* s.strip() for the operator and image names of the payloads.
StripName(s) ==
    CASE s = " logging " -> "logging"
      [] s = "  " -> ""
      [] OTHER -> s

\* [x.strip() for x in names if x.strip()]
StrippedNames(names) ==
    LET kept == SelectSeq(names, LAMBDA x : StripName(x) # "")
    IN [i \in 1..Len(kept) |-> StripName(kept[i])]

\* [v.strip() for v in versions if v.strip()]
StrippedStrings(xs) ==
    LET kept == SelectSeq(xs, LAMBDA x : Strip(x) # <<>>)
    IN [i \in 1..Len(kept) |-> Strip(kept[i])]

\* The JSON bodies of the requests: {} and bodies with some of the keys.
Payloads ==
    {EmptyDict,
     [kubevirt_container |-> TRUE],
     [ocp_min_version |-> V4_16_0],
     [ocp_versions |-> <<V4_16_0, <<" ">>, V4_16_1>>, ocp_channel |-> Stable416],
     [operators |-> <<StrOp(" logging "), StrOp("  ")>>,
      operator_catalogs |-> <<RedHatIndex, RedHatIndex416 \o <<" ">> >>],
     [operators |-> <<StrOp("my-operator")>>, operator_catalog |-> RedHatIndex416],
     [ocp_versions |-> <<Ocp416>>, ocp_channel |-> Stable416,
      operators |-> <<DictOp("cluster-logging", "5.8.0", "5.8.1", "")>>,
      additional_images |-> <<"registry.redhat.io/ubi8/ubi:latest">>],
     [additional_images |-> <<"registry.redhat.io/ubi8/ubi:latest">>,
      helm_charts |-> <<Chart("nginx", HelmRepoA, "1.0")>>],
     [helm_charts |-> <<Chart("bare", None, "")>>],
     [helm_charts |-> <<Chart("", HelmRepoA, "3.5")>>],
     [ocp_versions |-> <<V4_10_0>>, operators |-> <<StrOp("logging")>>,
      additional_images |-> <<"quay.io/a/b:1">>, kubevirt_container |-> FALSE]}

\* The steps of generate_preview after the generator is created, in order.
BuilderSteps == <<"versions", "operators", "images", "helm", "kubevirt">>

\* The position after a step.
After(step) ==
    CASE step = "received" -> "versions"
      [] step = "versions" -> "operators"
      [] step = "operators" -> "images"
      [] step = "images" -> "helm"
      [] step = "helm" -> "kubevirt"
      [] step = "kubevirt" -> "yaml"
      [] step = "yaml" -> "done"

\* catalogs: operator_catalogs, or the one operator_catalog, or the default.
CatalogsOf(data) ==
    IF Truthy(Get(data, "operator_catalogs")) THEN data.operator_catalogs
    ELSE IF Truthy(Get(data, "operator_catalog")) THEN <<data.operator_catalog>>
    ELSE <<RedHatIndex>>

\* "for catalog in catalogs: generator.add_operators(operators, catalog.strip())"
RECURSIVE AddOperatorsForCatalogs(_, _, _)
AddOperatorsForCatalogs(cfg, operators, catalogs) ==
    IF catalogs = <<>> THEN cfg
    ELSE AddOperatorsForCatalogs(
            AddOperatorsResult(cfg, operators, Strip(Head(catalogs)),
                               EmptyDict, None),
            operators, Tail(catalogs))

\* chart["name"] raises KeyError for a chart without a name; the charts of
\* the payloads have a name or no name key, which is "" here.
HelmRaises(data) ==
    /\ Truthy(Get(data, "helm_charts"))
    /\ \E i \in 1..Len(data.helm_charts) : data.helm_charts[i].name = ""

\* "[op.strip() for op in data['operators'] if op.strip()]": an element that
\* is no str has no strip, which is an AttributeError.
OperatorsRaise(data) ==
    /\ Truthy(Get(data, "operators"))
    /\ \E i \in 1..Len(data.operators) : data.operators[i].kind # "str"

\* The step of generate_preview raises, to its "except Exception".
StepRaises(data, step) ==
    \/ step = "operators" /\ OperatorsRaise(data)
    \/ step = "helm" /\ HelmRaises(data)

\* One step of generate_preview on the request's generator: the builder call
\* the step makes when its condition holds, with the arguments it is made
\* with.
BuilderStep(cfg, data, step) ==
    CASE step = "versions" ->
            IF \/ Truthy(Get(data, "ocp_versions"))
               \/ Truthy(Get(data, "ocp_min_version"))
               \/ Truthy(Get(data, "ocp_max_version"))
            THEN AddOcpVersionsResult(cfg,
                    IF Truthy(Get(data, "ocp_versions"))
                    THEN StrippedStrings(data.ocp_versions) ELSE None,
                    IF "ocp_channel" \in DOMAIN data
                    THEN data.ocp_channel ELSE DefaultChannel,
                    Get(data, "ocp_min_version"),
                    Get(data, "ocp_max_version"))
            ELSE cfg
      [] step = "operators" ->
            IF Truthy(Get(data, "operators"))
            THEN LET names == StrippedNames([i \in 1..Len(data.operators) |->
                                                data.operators[i].name])
                 IN AddOperatorsForCatalogs(cfg,
                        [i \in 1..Len(names) |-> StrOp(names[i])],
                        CatalogsOf(data))
            ELSE cfg
      [] step = "images" ->
            IF Truthy(Get(data, "additional_images"))
            THEN AddAdditionalImagesResult(cfg,
                    StrippedNames(data.additional_images))
            ELSE cfg
      [] step = "helm" ->
            IF Truthy(Get(data, "helm_charts"))
            THEN AddHelmChartsResult(cfg, data.helm_charts)
            ELSE cfg
      [] step = "kubevirt" ->
            IF "kubevirt_container" \in DOMAIN data /\ data.kubevirt_container
            THEN SetKubevirtContainerResult(cfg, TRUE)
            ELSE cfg

\* A deviation the isolation property must detect: the document held by the
\* class, so that a call changes every generator that exists.
InstancesOfTheClass(r) == GenerateRequests

\* The generators whose document a builder call of request r's generator
\* changes: self.config is created in __init__, one per instance.
Instances(r) == {r}

\* validate_config's errors for a payload with data.
ValidationErrors(data) ==
    LET has_ocp == Truthy(Get(data, "ocp_versions"))
        has_operators == Truthy(Get(data, "operators"))
        has_images == Truthy(Get(data, "additional_images"))
        has_helm == Truthy(Get(data, "helm_charts"))
        charts == IF has_helm THEN data.helm_charts ELSE <<>>
    IN (IF ~(has_ocp \/ has_operators \/ has_images \/ has_helm)
        THEN {"At least one configuration section must be specified"}
        ELSE {})
       \cup {"Helm chart name is required" :
                i \in {i \in 1..Len(charts) : charts[i].name = ""}}
       \cup {"Helm chart repository is required" :
                i \in {i \in 1..Len(charts) : charts[i].repository = None}}

GenerateInit ==
    /\ EnrichIdle
    /\ ValidateIdle
    /\ payload \in [GenerateRequests -> Payloads]
    /\ generator = [r \in GenerateRequests |-> EmptyDict]
    /\ pos = [r \in GenerateRequests |-> "received"]
    /\ answer = [r \in GenerateRequests |-> [code |-> 0]]
    /\ BuilderIdle
    /\ TagIdle
    /\ CacheIdle
    /\ ToolIdle

\* generate_preview up to "generator = ImageSetGenerator()": a request
\* without data is answered 400.
CreateGenerator(r) ==
    /\ pos[r] = "received"
    /\ IF DOMAIN payload[r] = {}
       THEN /\ answer' = [answer EXCEPT ![r] = [code |-> 400, success |-> FALSE]]
            /\ pos' = [pos EXCEPT ![r] = "done"]
            /\ UNCHANGED generator
       ELSE /\ \E now \in Timestamps :
                  generator' = [generator EXCEPT ![r] = InitConfig(now)]
            /\ pos' = [pos EXCEPT ![r] = After("received")]
            /\ UNCHANGED answer
    /\ UNCHANGED payload
    /\ UNCHANGED nonGenerateVars

\* The next builder call of generate_preview, or the 500 of its except
\* branch when the call raises.
CallBuilder(r) ==
    /\ \E i \in 1..Len(BuilderSteps) : pos[r] = BuilderSteps[i]
    /\ IF StepRaises(payload[r], pos[r])
       THEN /\ answer' = [answer EXCEPT ![r] =
                            [code |-> 500, success |-> FALSE, raised |-> pos[r]]]
            /\ pos' = [pos EXCEPT ![r] = "done"]
            /\ UNCHANGED generator
       ELSE /\ generator' =
                  [x \in GenerateRequests |->
                      IF x \in Instances(r) /\ "apiVersion" \in DOMAIN generator[x]
                      THEN BuilderStep(generator[x], payload[r], pos[r])
                      ELSE generator[x]]
            /\ pos' = [pos EXCEPT ![r] = After(@)]
            /\ UNCHANGED answer
    /\ UNCHANGED payload
    /\ UNCHANGED nonGenerateVars

\* "yaml_content = generator.generate_yaml()" and the response with it.
ReturnPreview(r) ==
    /\ pos[r] = "yaml"
    /\ answer' = [answer EXCEPT ![r] =
                    [code |-> 200, success |-> TRUE,
                     yaml |-> GenerateYaml(generator[r])]]
    /\ pos' = [pos EXCEPT ![r] = After(@)]
    /\ UNCHANGED <<payload, generator>>
    /\ UNCHANGED nonGenerateVars

GenerateNext ==
    \E r \in GenerateRequests :
        \/ CreateGenerator(r)
        \/ CallBuilder(r)
        \/ ReturnPreview(r)

GenerateSpec == GenerateInit /\ [][GenerateNext]_vars

----------------------------------------------------------------------------
(* Claims about the generate requests *)

\* The validator rejects the payload: no data, or errors.
Rejected(data) == DOMAIN data = {} \/ ValidationErrors(data) # {}

\* C17: a payload the validator rejects has no generator created for it, no
\* builder call made with it and no document returned for it.
C17_RejectedNeverBuilt ==
    \A r \in GenerateRequests :
        Rejected(payload[r]) =>
            /\ "apiVersion" \notin DOMAIN generator[r]
            /\ answer[r].code # 200

\* The builder calls a request has made: all of them once it is answered,
\* those before the call that raised when one did.
CallsMade(r) ==
    CASE pos[r] = "received" -> 0
      [] pos[r] = "done" ->
            IF answer[r].code = 500
            THEN (CHOOSE i \in 1..Len(BuilderSteps) :
                      BuilderSteps[i] = answer[r].raised) - 1
            ELSE Len(BuilderSteps)
      [] pos[r] = "yaml" -> Len(BuilderSteps)
      [] OTHER -> (CHOOSE i \in 1..Len(BuilderSteps) : BuilderSteps[i] = pos[r]) - 1

\* The document a new generator has after the first n builder calls of a
\* request with the given payload, and no other call.
RECURSIVE OwnCalls(_, _, _)
OwnCalls(now, data, n) ==
    IF n = 0 THEN InitConfig(now)
    ELSE BuilderStep(OwnCalls(now, data, n - 1), data, BuilderSteps[n])

StructuredEntries(data) ==
    IF Truthy(Get(data, "operators"))
    THEN {data.operators[i] : i \in {j \in 1..Len(data.operators) :
                                        data.operators[j].kind = "dict"}}
    ELSE {}

\* The package names of a returned document.
PackagesIn(yaml) ==
    LET groups == yaml.body.mirror.operators
    IN UNION {{groups[g].packages[i].name : i \in 1..Len(groups[g].packages)} :
              g \in 1..Len(groups)}

\* C21: a request whose operators hold a structured entry (name, minVersion,
\* maxVersion) is answered with success and a document that contains the
\* named package.
C21_StructuredEntryPreviewed ==
    \A r \in GenerateRequests :
        (pos[r] = "done" /\ StructuredEntries(payload[r]) # {}) =>
            /\ answer[r].code = 200
            /\ answer[r].success
            /\ \A op \in StructuredEntries(payload[r]) :
                   op.name \in PackagesIn(answer[r].yaml)

----------------------------------------------------------------------------
(* refresh_ocp_operators' parsing of the two tables, for catalogs of two    *)
(* bundles and two channels.                                                *)

\* The bundles and channels the catalogs are made of: a bundle with and one
\* without olm.csv.metadata, a bundle whose name is its package's name; a
\* channel that has a bundle as its entry, and channels that have a bundle's
\* name in their package or in their own name only.
EnrichBundles ==
    {BundleDoc(<<"a">>, <<"a", ".", "1">>, <<"1">>,
               Metadata(<<<<"k">>>>, <<"d">>), FALSE),
     BundleDoc(<<"b">>, <<"b", ".", "1">>, <<"2">>, NoMetadata, FALSE),
     BundleDoc(<<"b">>, <<"b">>, <<"3">>, Metadata(<<>>, <<"e">>), FALSE),
     BundleDoc(<<"c">>, <<"c", ".", "1">>, <<"4">>,
               Metadata(<<<<"k">>>>, <<"d">>), TRUE)}

EnrichChannels ==
    {ChannelDoc(<<"a">>, <<"s">>, <<<<"a", ".", "1">>>>),
     ChannelDoc(<<"b">>, <<"t">>, <<<<"b", ".", "0">>, <<"b", ".", "1">>>>),
     ChannelDoc(<<"b">>, <<"u">>, <<<<"x">>>>),
     ChannelDoc(<<"c">>, <<"a", ".", "1">>, <<>>)}

EnrichCatalogs ==
    {<<b1, c1, b2, c2>> : b1 \in EnrichBundles, b2 \in EnrichBundles,
                          c1 \in EnrichChannels, c2 \in EnrichChannels}

EnrichInit ==
    /\ \E docs \in EnrichCatalogs :
          tables = [data |-> Concat(BundleRows(docs)),
                    channel_data |-> Concat(ChannelRows(docs))]
    /\ enriched = [done |-> FALSE]
    /\ BuilderIdle
    /\ TagIdle
    /\ CacheIdle
    /\ ToolIdle
    /\ GenerateIdle
    /\ ValidateIdle

\* refresh_ocp_operators from the "Parse TSV Output Files" block on: the
\* records of the two tables, then the snapshot written and the 200, or the
\* 500 of the except branch and no snapshot.
ParseTsvOutputFiles ==
    /\ ~enriched.done
    /\ LET parsed == ParseTables(tables.data, tables.channel_data)
       IN enriched' =
            [done |-> TRUE,
             result |-> parsed,
             code |-> IF parsed.ok THEN 200 ELSE 500,
             snapshot |-> IF parsed.ok
                          THEN JsonFile(DumpSnapshot(parsed.operators, SnapshotTime))
                          ELSE [kind |-> "absent"]]
    /\ UNCHANGED tables
    /\ UNCHANGED <<builderVars, tagVars, cacheVars, toolVars, generateVars,
                   validateVars>>

EnrichNext == ParseTsvOutputFiles

EnrichSpec == EnrichInit /\ [][EnrichNext]_vars

----------------------------------------------------------------------------
(* Claims about the parsing of the tables *)

\* The rows jq wrote into a table: the fields of each line it ended.
RowsOf(table) ==
    LET lines == Split(table, "\n")
    IN [i \in 1..(Len(lines) - 1) |-> Split(lines[i], "\t")]

\* The member-bundle fields of a channel row: those after the package and
\* the channel name, before the last one.
MemberBundles(row) == SubSeq(row, 3, Len(row) - 1)

\* C39: when the bundle pass wrote no row, the refresh completes with a
\* snapshot whose operators list is empty and whose count is 0; the count of
\* every snapshot written is the number of its operator records.
C39_NoRowsGivesEmptySnapshot ==
    enriched.done =>
        LET written == JsonLoad(enriched.snapshot)
        IN /\ tables.data = <<>> =>
                  /\ enriched.code = 200
                  /\ written.ok
                  /\ written.value.operators = <<>>
                  /\ written.value.count = 0
           /\ written.ok => written.value.count = Len(written.value.operators)

\* C18: the record of each bundle row has the channel name of the first
\* channel row one of whose member-bundle fields contains the bundle's name,
\* and the empty string as its channel when there is no such row.
C18_ChannelOfFirstMemberRow ==
    (enriched.done /\ Strip(tables.data) # <<>>) =>
        /\ enriched.result.ok
        /\ LET bundles == RowsOf(tables.data)
               channels == RowsOf(tables.channel_data)
           IN /\ Len(enriched.result.operators) = Len(bundles)
              /\ \A i \in 1..Len(bundles) :
                    LET name == bundles[i][2]
                        hits == {k \in 1..Len(channels) :
                                    \E j \in 1..Len(MemberBundles(channels[k])) :
                                        Contains(name, MemberBundles(channels[k])[j])}
                        rec == enriched.result.operators[i]
                    IN /\ "channel" \in DOMAIN rec
                       /\ rec.channel =
                            IF hits = {} THEN <<>>
                            ELSE channels[CHOOSE k \in hits :
                                             \A o \in hits : k <= o][2]

-----------------------------------------------------------------------------
(* validation.py: the validators of catalog URLs, versions, channels and    *)
(* path components, each applied to one argument.                           *)

MaxInputLen == 3

Lowercase ==
    {"a","b","c","d","e","f","g","h","i","j","k","l","m",
     "n","o","p","q","r","s","t","u","v","w","x","y","z"}

Uppercase ==
    {"A","B","C","D","E","F","G","H","I","J","K","L","M",
     "N","O","P","Q","R","S","T","U","V","W","X","Y","Z"}

\* \w, on the characters of the arguments.
WordChars == Lowercase \cup Uppercase \cup Digits \cup {"_"}

\* "[cs]+" and "[cs]*" on the whole of s.
OneOrMore(s, cs) == s # <<>> /\ \A i \in 1..Len(s) : s[i] \in cs
ZeroOrMore(s, cs) == \A i \in 1..Len(s) : s[i] \in cs

\* re.match of a pattern "^...$" whose body matches s as Full says: "$"
\* matches at the end of s and before a newline that ends s.
ReMatch(Full(_), s) ==
    \/ Full(s)
    \/ s # <<>> /\ Last(s) = "\n" /\ Full(SubSeq(s, 1, Len(s) - 1))

\* \d+\.\d+
MajorMinorBody(s) ==
    \E i \in 1..Len(s) :
        /\ s[i] = "."
        /\ OneOrMore(SubSeq(s, 1, i - 1), Digits)
        /\ OneOrMore(SubSeq(s, i + 1, Len(s)), Digits)

\* [a-zA-Z][a-zA-Z0-9\-]*\d+\.\d+
ChannelBody(s) ==
    /\ s # <<>>
    /\ s[1] \in Lowercase \cup Uppercase
    /\ \E j \in 2..Len(s) :
          /\ ZeroOrMore(SubSeq(s, 2, j - 1),
                        Lowercase \cup Uppercase \cup Digits \cup {"-"})
          /\ MajorMinorBody(SubSeq(s, j, Len(s)))

RegistryHost == SubSeq(RedHatIndex, 1, 19)

\* registry\.redhat\.io/[\w\-]+/[\w\-]+(?::v\d+\.\d+)?
CatalogBody(s) ==
    /\ StartsWith(s, RegistryHost)
    /\ LET rest == SubSeq(s, Len(RegistryHost) + 1, Len(s))
       IN \E k \in 1..Len(rest) :
             /\ rest[k] = "/"
             /\ OneOrMore(SubSeq(rest, 1, k - 1), WordChars \cup {"-"})
             /\ LET tail == SubSeq(rest, k + 1, Len(rest))
                IN \/ OneOrMore(tail, WordChars \cup {"-"})
                   \/ \E c \in 1..Len(tail) :
                         /\ OneOrMore(SubSeq(tail, 1, c - 1), WordChars \cup {"-"})
                         /\ c + 1 <= Len(tail)
                         /\ SubSeq(tail, c, c + 1) = TagPrefix
                         /\ MajorMinorBody(SubSeq(tail, c + 2, Len(tail)))

\* [\w\-\.]+
ComponentBody(s) == OneOrMore(s, WordChars \cup {"-", "."})

\* An argument: a str with its characters, or a value of another type.
Str(chars) == [type |-> "str", chars |-> chars]
NotAStr == [type |-> "other", chars |-> <<>>]

\* "raise ValidationError(...)" and "return value".
RaisesValidationError == [raised |-> TRUE, value |-> <<>>]
Returns(value) == [raised |-> FALSE, value |-> value]

\* "if not x or not isinstance(x, str)"
Refused(x) == x.type # "str" \/ x.chars = <<>>

validate_catalog_url(url) ==
    IF Refused(url) THEN RaisesValidationError
    ELSE LET stripped == Strip(url.chars)
         IN IF ~ReMatch(CatalogBody, stripped) THEN RaisesValidationError
            ELSE Returns(stripped)

validate_version(version) ==
    IF Refused(version) THEN RaisesValidationError
    ELSE LET stripped == Strip(version.chars)
         IN IF ~ReMatch(MajorMinorBody, stripped) THEN RaisesValidationError
            ELSE Returns(stripped)

validate_channel(channel) ==
    IF Refused(channel) THEN RaisesValidationError
    ELSE LET stripped == Strip(channel.chars)
         IN IF ~ReMatch(ChannelBody, stripped) THEN RaisesValidationError
            ELSE Returns(stripped)

\* safe_path_component without its check for path traversal attempts.
safe_path_component_by_pattern_only(component) ==
    IF Refused(component) THEN RaisesValidationError
    ELSE LET stripped == Strip(component.chars)
         IN IF ~ReMatch(ComponentBody, stripped) THEN RaisesValidationError
            ELSE Returns(stripped)

safe_path_component(component) ==
    IF Refused(component) THEN RaisesValidationError
    ELSE LET stripped == Strip(component.chars)
         IN IF \/ Contains(<<".", ".">>, stripped)
               \/ Contains(<<"/">>, stripped)
               \/ Contains(<<"\\">>, stripped)
            THEN RaisesValidationError
            ELSE IF ~ReMatch(ComponentBody, stripped) THEN RaisesValidationError
                 ELSE Returns(stripped)

\* The arguments: every string of up to MaxInputLen of these characters,
\* names that are longer, and catalog references put together of a host, two
\* path parts and a tag; each as it is and inside whitespace; and a value
\* that is no str.
InputChars == {"a", "4", ".", "-", "/", "\\", " "}

ShortInputs == UNION {[1..n -> InputChars] : n \in 0..MaxInputLen}

LongInputs ==
    {Ocp416, V4_16_0, Stable416, <<"s","t","a","b","l","e">> \o Ocp416,
     <<"s","t","a","b","l","e">>, <<"v">> \o Ocp416, <<"a">> \o Ocp416,
     <<"a","_","4",".","t","x","t">>, <<"a",".",".","b">>, <<"a","$","b">>}

CatalogHosts ==
    {RegistryHost, [RegistryHost EXCEPT ![9] = "a"],
     <<"e","v","i","l",".","i","o","/">>,
     <<"h","t","t","p",":","/","/">> \o RegistryHost}

CatalogParts ==
    {<<>>, <<"a">>, <<"a","-","4">>, <<"a","_">>, <<".",".">>, <<"a"," ","b">>}

CatalogTags ==
    {<<>>, TagPrefix \o Ocp416, TagPrefix \o <<"4">>, <<":">> \o Ocp416,
     TagPrefix \o V4_16_0, <<";">>}

CatalogInputs ==
    {h \o org \o <<"/">> \o cat \o tag :
        h \in CatalogHosts, org \in CatalogParts, cat \in CatalogParts,
        tag \in CatalogTags}

Inputs ==
    {NotAStr} \cup
    {Str(l \o c \o t) :
        l \in {<<>>, <<" ">>}, t \in {<<>>, <<"\n">>},
        c \in ShortInputs \cup LongInputs \cup CatalogInputs}

ValidateInit ==
    /\ given \in Inputs
    /\ verdict = [fn |-> "none"]
    /\ BuilderIdle
    /\ TagIdle
    /\ CacheIdle
    /\ ToolIdle
    /\ GenerateIdle
    /\ EnrichIdle

Validated(fn, result) ==
    /\ verdict.fn = "none"
    /\ verdict' = [fn |-> fn, raised |-> result.raised, value |-> result.value]
    /\ UNCHANGED given
    /\ UNCHANGED <<builderVars, tagVars, cacheVars, toolVars, generateVars,
                   enrichVars>>

ValidateCatalogUrl == Validated("validate_catalog_url", validate_catalog_url(given))
ValidateVersion == Validated("validate_version", validate_version(given))
ValidateChannel == Validated("validate_channel", validate_channel(given))
SafePathComponent == Validated("safe_path_component", safe_path_component(given))

ValidateNext ==
    \/ ValidateCatalogUrl
    \/ ValidateVersion
    \/ ValidateChannel
    \/ SafePathComponent

ValidateSpec == ValidateInit /\ [][ValidateNext]_vars

-----------------------------------------------------------------------------
(* Claims about the validators *)

\* The argument with its leading and trailing whitespace removed.
Trimmed == IF given.type = "str" THEN Strip(given.chars) ELSE <<>>

\* C22: safe_path_component returns only when the trimmed argument is not
\* empty, holds no "..", no "/" and no "\", and is made of word characters,
\* "-" and "." only; then it returns the trimmed argument, and for every
\* other argument it raises ValidationError.
C22_SafePathComponent ==
    verdict.fn = "safe_path_component" =>
        LET safe == /\ given.type = "str"
                    /\ Trimmed # <<>>
                    /\ ~Contains(<<".", ".">>, Trimmed)
                    /\ \A i \in 1..Len(Trimmed) :
                          /\ Trimmed[i] \notin {"/", "\\"}
                          /\ Trimmed[i] \in WordChars \cup {"-", "."}
        IN IF safe THEN ~verdict.raised /\ verdict.value = Trimmed
           ELSE verdict.raised

\* A component inside whitespace was returned trimmed.
C22_Witness ==
    /\ verdict.fn = "safe_path_component"
    /\ ~verdict.raised
    /\ verdict.value # given.chars
    /\ Contains(<<".">>, verdict.value)

\* The formats: X.Y, <name>-X.Y with a name of letters, digits and hyphens,
\* and registry.redhat.io/<org>/<catalog>[:vX.Y].
FormatXY(s) ==
    \E i \in 1..Len(s) :
        /\ s[i] = "."
        /\ OneOrMore(SubSeq(s, 1, i - 1), Digits)
        /\ OneOrMore(SubSeq(s, i + 1, Len(s)), Digits)

FormatNameXY(s) ==
    \E i \in 1..Len(s) :
        /\ s[i] = "-"
        /\ OneOrMore(SubSeq(s, 1, i - 1),
                     Lowercase \cup Uppercase \cup Digits \cup {"-"})
        /\ FormatXY(SubSeq(s, i + 1, Len(s)))

FormatCatalog(s) ==
    \E org, cat \in {p \in CatalogParts : OneOrMore(p, WordChars \cup {"-"})} :
        \/ s = RegistryHost \o org \o <<"/">> \o cat
        \/ \E t \in {x \in ShortInputs \cup LongInputs : FormatXY(x)} :
              s = RegistryHost \o org \o <<"/">> \o cat \o TagPrefix \o t

\* The validator called, applied to an argument.
Validator(fn, x) ==
    CASE fn = "validate_catalog_url" -> validate_catalog_url(x)
      [] fn = "validate_version" -> validate_version(x)
      [] fn = "validate_channel" -> validate_channel(x)

\* C23: what validate_catalog_url, validate_version or validate_channel
\* returns is the trimmed argument, which has the validator's format and
\* which the validator returns unchanged when applied to it.
C23_ValidatorsReturnTrimmedFormat ==
    (verdict.fn \in {"validate_catalog_url", "validate_version",
                     "validate_channel"} /\ ~verdict.raised) =>
        /\ verdict.value = Trimmed
        /\ CASE verdict.fn = "validate_catalog_url" -> FormatCatalog(Trimmed)
             [] verdict.fn = "validate_version" -> FormatXY(Trimmed)
             [] verdict.fn = "validate_channel" -> FormatNameXY(Trimmed)
        /\ Validator(verdict.fn, Str(verdict.value)) = Returns(verdict.value)

====
